---- MODULE Spec2Model ----
(***************************************************************************)
(* Stack progression and message rollback of the MindGrowth server:        *)
(* the session and message tables, the question flows, the generation      *)
(* call, and the create / read / message / complete / edit / export        *)
(* request handlers.                                                       *)
(*                                                                         *)
(* Text is a sequence of one-character strings; a stretch of a question    *)
(* template that holds no placeholder is kept as one element.  A nullable  *)
(* column holds {} for NULL and {v} for the value v.                       *)
(***************************************************************************)
EXTENDS Integers, Sequences, FiniteSets, TLC

VARIABLES
    stackSessions,   \* rows of stack_sessions, row i has id i
    stackMessages,   \* rows of stack_messages, in insertion order
    nextMessageId,   \* ids already handed out to message rows
    clock,           \* the time of the latest timestamp taken
    res,             \* the latest request's outcome: the response sent and
                     \* the prompt of the generation call it made, if any
    exported,        \* the transcripts a client has been sent by export
                     \* requests since the latest write, oldest first
    aiFailures,      \* exploration: generation calls that have failed so far
    editsRun,        \* exploration: edit requests with claims handled so far
    requests,        \* the requests in flight: per connection, the handler's
                     \* position and its local variables
    started,         \* exploration: requests accepted on the connections so far
    dbFailures,      \* exploration: storage calls that have thrown so far
    vectorIndex,     \* documents of the message_embeddings collection
    pendingUpserts,  \* upsertMessageEmbedding calls that have not settled
    searched,        \* the latest semantic search: its filter and its matches
    mongoClient,     \* mongodb-vector.ts: the module's client handle, or NoClient
    mongoUri,        \* process.env.MONGODB_ATLAS_URI: {} when unset
    clientsConstructed, \* MongoClient objects constructed so far; the n-th is n
    resets,          \* times closeMongoDB has set the handle back to null
    initCalls,       \* calls of initMongoDB: position and returned value
    closeCalls       \* calls of closeMongoDB: position

\* the requests in flight
Concurrent == << requests, started, dbFailures >>

\* the vector store and what was asked of it
VectorStore == << vectorIndex, pendingUpserts, searched >>

\* the lazily initialised client of the vector store
Mongo == << mongoClient, mongoUri, clientsConstructed, resets, initCalls, closeCalls >>

vars == << stackSessions, stackMessages, nextMessageId, clock, res, exported,
           aiFailures, editsRun, Concurrent, VectorStore, Mongo >>

\* the stored part of the state: both tables
Stored == << stackSessions, stackMessages >>

(***************************************************************************)
(* Bounds of the exploration.                                              *)
(***************************************************************************)
MaxClock == 27
MaxAiFailures == 1
MaxEdits == 1
\* the clock of the exploration of the read routes
MaxReadClock == 8
\* instants of the clock per calendar day
DayLength == 4
\* calls of initMongoDB and of closeMongoDB explored
MaxInitCalls == 3
MaxCloseCalls == 2
\* requests accepted while others are in flight, and storage calls that throw
MaxRequests == 3
MaxDbFailures == 1

Max(a, b) == IF a >= b THEN a ELSE b

(***************************************************************************)
(* shared/schema.ts                                                        *)
(***************************************************************************)
stackTypeEnum == {"gratitude", "idea", "discover", "angry"}

gratitudeQuestions ==
    << <<"What are you going to title this Gratitude Stack?">>,
       <<"What domain of CORE 4 are you Stacking? (Mind, Body, Being, or Balance)">>,
       <<"Who/What are you stacking?">>,
       <<"In this moment, why has ", "[", "X", "]", " triggered you to feel grateful?">>,
       <<"What is the story you're telling yourself, created by this trigger, about ", "[", "X", "]", " and the situation?">>,
       <<"Describe the single word feelings that arise for you when you tell yourself that story.">>,
       <<"Describe the specific thoughts and actions that arise for you when you tell yourself this story.">>,
       <<"What are the non-emotional FACTS about the situation with ", "[", "X", "]", " that triggered you to feel grateful?">>,
       <<"Empowered by your gratitude trigger with ", "[", "X", "]", " and the original story you are telling yourself, what do you truly want for you in and beyond this situation?">>,
       <<"What do you want for ", "[", "X", "]", " in and beyond this situation?">>,
       <<"What do you want for ", "[", "X", "]", " and YOU in and beyond this situation?">>,
       <<"Stepping back from what you have created so far, why has this gratitude trigger been extremely positive?">>,
       <<"Looking at how positive this gratitude trigger has been, what is the singular lesson on life you are taking from this Stack?">>,
       <<"What is the most significant REVELATION or INSIGHT you are leaving this Gratitude Stack with, and why do you feel that way?">>,
       <<"What immediate ACTIONS are you committed to taking leaving this Stack?">> >>

ideaQuestions ==
    << <<"What are you going to title this Idea Stack?">>,
       <<"What domain of CORE 4 are you Stacking? (Mind, Body, Being, or Balance)">>,
       <<"Who/What are you stacking?">>,
       <<"In this moment, what Idea has ", "[", "X", "]", " activated in you?">>,
       <<"What is the story you're telling yourself about this new idea?">>,
       <<"Describe the single word feelings that arise for you when you tell yourself that story.">>,
       <<"Describe the specific thoughts and actions that arise for you when you tell yourself this story.">>,
       <<"If this productive idea is executed on, what are the positive benefits to your world and those you are connected to?">>,
       <<"If this productive idea is not executed on, what are the possible negative side effects to your world and those you are connected to?">>,
       <<"What is the first measurable FACT?">>,
       <<"Why do you feel selecting this FACT is significant?">>,
       <<"What is a simple TITLE you could give this FACT?">>,
       <<"What is the second measurable FACT?">>,
       <<"Why do you feel selecting this FACT is significant?">>,
       <<"What is a simple TITLE you could give this FACT?">>,
       <<"What is the third measurable FACT?">>,
       <<"Why do you feel selecting this FACT is significant?">>,
       <<"What is a simple TITLE you could give this FACT?">>,
       <<"What is the fourth measurable FACT?">>,
       <<"Why do you feel selecting this FACT is significant?">>,
       <<"What is a simple TITLE you could give this FACT?">>,
       <<"Stepping back from this Idea Stack, why has this productive idea been extremely positive?">>,
       <<"Looking at how positive this productive idea has been, what is the singular lesson about life you are taking from this Stack?">>,
       <<"What is the most significant REVELATION or INSIGHT you are leaving this Idea Stack with, and why do you feel that way?">>,
       <<"What immediate actions are you committed to taking leaving this Stack?">> >>

discoverQuestions ==
    << <<"What are you going to title this Discover Stack?">>,
       <<"What domain of CORE 4 are you Stacking? (Mind, Body, Being, or Balance)">>,
       <<"Who/What are you stacking?">>,
       <<"In this moment, what Discovery has ", "[", "X", "]", " activated in you?">>,
       <<"What is the story you're telling yourself about this discovery?">>,
       <<"Describe the single word feelings that arise for you when you tell yourself that story.">>,
       <<"Describe the specific thoughts and actions that arise for you when you tell yourself this story.">>,
       <<"Stepping back from what you have discovered, why has this discovery been extremely positive?">>,
       <<"Looking at how positive this discovery trigger has been, what is the singular lesson about life you are taking from this Stack?">>,
       <<"What Category of life would you like to apply this discovery?">>,
       <<"The lesson you learned was: [fill in based on your previous answer]">>,
       <<"How does this lesson apply to your chosen CORE 4 domain?">>,
       <<"What is the most significant REVELATION, or INSIGHT, that you are leaving this Discover Stack with? Why do you feel that way?">>,
       <<"What immediate actions are you committed to taking leaving this Discover Stack?">> >>

angryQuestions ==
    << <<"What are you going to title this Angry Stack?">>,
       <<"What domain of CORE 4 are you stacking? (Mind, Body, Being, or Balance)">>,
       <<"Who/What are you stacking?">>,
       <<"In this moment, why has ", "[", "X", "]", " triggered you to feel anger?">>,
       <<"What is the story you're telling yourself, created by this trigger, about ", "[", "X", "]", " and the situation?">>,
       <<"Describe the single word feelings that arise for you when you tell yourself that story.">>,
       <<"Describe the specific thoughts and actions that arise for you when you tell yourself this story.">>,
       <<"What evidence do you have to support this story as absolutely true?">>,
       <<"What are the non-emotional facts about the situation with ", "[", "X", "]", " that triggered you to feel anger?">>,
       <<"Regardless of your anger trigger with ", "[", "X", "]", " and the original story you are telling yourself, what do you truly want for you in and beyond this situation?">>,
       <<"What do you want for ", "[", "X", "]", " in and beyond this situation?">>,
       <<"What do you want for ", "[", "X", "]", " and YOU in and beyond this situation?">>,
       <<"If you keep telling yourself this original story, will it ultimately give you what you want?">>,
       <<"Are you ready to let go of the original story, to expand your mind and reality around this trigger and create a new power story that will assure you get what you want?">>,
       <<"Letting go of the original story and reviewing what you want, and knowing you can ultimately create any story you desire --- what is your new DESIRED VERSION of the story?">>,
       <<"What evidence can you see to prove this DESIRED STORY is accurate, so you can weaponize yourself to move forward today?">>,
       <<"Stepping back and reviewing what you want, will telling yourself this desired story give you what you want?">>,
       <<"Stepping back from what you have created so far, why has this anger trigger been extremely positive?">>,
       <<"Looking at how positive this anger trigger has been, what is the singular lesson on life you are taking from this Stack?">>,
       <<"What is the most significant revelation or insight you are leaving this Angry Stack with, and why do you feel that way?">>,
       <<"Compared to how you felt when you started this Angry Stack, what singular words would you use to describe how you feel now completing it?">>,
       <<"What immediate actions are you committed to taking leaving this Stack?">> >>

stackQuestionFlows ==
    [ gratitude |-> [totalQuestions |-> 15, questions |-> gratitudeQuestions],
      idea      |-> [totalQuestions |-> 25, questions |-> ideaQuestions],
      discover  |-> [totalQuestions |-> 14, questions |-> discoverQuestions],
      angry     |-> [totalQuestions |-> 22, questions |-> angryQuestions] ]

\* questions[i] of the code, whose arrays count from 0
QuestionAt(questions, i) == questions[i + 1]

(***************************************************************************)
(* JavaScript built-ins the handlers use.                                  *)
(***************************************************************************)
WhiteSpace == {" ", "\t", "\n"}

RECURSIVE TrimStart(_)
TrimStart(s) ==
    IF s = << >> THEN << >>
    ELSE IF Head(s) \in WhiteSpace THEN TrimStart(Tail(s))
    ELSE s

RECURSIVE TrimEnd(_)
TrimEnd(s) ==
    IF s = << >> THEN << >>
    ELSE IF s[Len(s)] \in WhiteSpace THEN TrimEnd(SubSeq(s, 1, Len(s) - 1))
    ELSE s

\* String.prototype.trim
Trim(s) == TrimEnd(TrimStart(s))

\* GetSubstitution of String.prototype.replace for a pattern without capture
\* groups: in the replacement text "$$" stands for "$", "$&" for the match,
\* "$`" for the text before the match and "$'" for the text after it.
RECURSIVE GetSubstitution(_, _, _, _)
GetSubstitution(replacement, matched, before, after) ==
    IF replacement = << >> THEN << >>
    ELSE IF Head(replacement) = "$" /\ Len(replacement) >= 2
         THEN LET c == replacement[2]
                  rest == SubSeq(replacement, 3, Len(replacement))
              IN  CASE c = "$" -> <<"$">> \o GetSubstitution(rest, matched, before, after)
                    [] c = "&" -> matched \o GetSubstitution(rest, matched, before, after)
                    [] c = "`" -> before \o GetSubstitution(rest, matched, before, after)
                    [] c = "'" -> after \o GetSubstitution(rest, matched, before, after)
                    [] OTHER   -> <<"$">> \o GetSubstitution(Tail(replacement), matched, before, after)
         ELSE <<Head(replacement)>> \o GetSubstitution(Tail(replacement), matched, before, after)

Placeholder == <<"[", "X", "]">>

\* text.replace(/\[X\]/g, replacement), scanning text from position i
RECURSIVE ReplaceFrom(_, _, _)
ReplaceFrom(text, i, replacement) ==
    IF i > Len(text) THEN << >>
    ELSE IF i + 2 <= Len(text) /\ SubSeq(text, i, i + 2) = Placeholder
         THEN GetSubstitution(replacement, Placeholder,
                              SubSeq(text, 1, i - 1), SubSeq(text, i + 3, Len(text)))
              \o ReplaceFrom(text, i + 3, replacement)
         ELSE <<text[i]>> \o ReplaceFrom(text, i + 1, replacement)

ReplacePlaceholder(text, replacement) == ReplaceFrom(text, 1, replacement)

\* subjectEntity || '[subject]'
SubjectOrDefault(subjectEntity) ==
    IF subjectEntity = << >> THEN <<"[subject]">> ELSE subjectEntity

(***************************************************************************)
(* server/ai.ts                                                            *)
(***************************************************************************)
\* IsShortPrompt with the bound off by one: the last question gets the short prompt
IsShortPromptOffByOne(questionNumber, questions) == questionNumber < Len(questions)

\* guidancePrompt and max_tokens are chosen by the same test
IsShortPrompt(questionNumber, questions) == questionNumber < Len(questions) - 1

\* The request getAIResponse sends to the generation API.
AIPrompt(stackType, questionNumber, userResponse, conversationHistory, subjectEntity) ==
    LET questions == stackQuestionFlows[stackType].questions
        currentQuestion == QuestionAt(questions, questionNumber)
        formattedQuestion ==
            ReplacePlaceholder(currentQuestion, SubjectOrDefault(subjectEntity))
    IN  IF IsShortPrompt(questionNumber, questions)
        THEN [ kind |-> "next", answered |-> questionNumber + 1,
               question |-> formattedQuestion, max_tokens |-> 512,
               messages |-> Len(conversationHistory) + 1 ]
        ELSE [ kind |-> "summary", answered |-> questionNumber + 1,
               question |-> << >>, max_tokens |-> 3072,
               messages |-> Len(conversationHistory) + 1 ]

\* The text the generation API returns for a prompt it serves: a short
\* acknowledgment and the question the prompt quotes, or the summary.
AIText(prompt) ==
    IF prompt.kind = "next" THEN <<"(ack) ">> \o prompt.question
    ELSE <<"(summary)">>

\* getInitialQuestion
getInitialQuestion(stackType, subjectEntity) ==
    LET questions == stackQuestionFlows[stackType].questions
        firstQuestion == QuestionAt(questions, 0)
        chatStartQuestion == QuestionAt(questions, 3)
        replaced == ReplacePlaceholder(chatStartQuestion, SubjectOrDefault(subjectEntity))
    IN  IF replaced = << >> THEN firstQuestion ELSE replaced

(***************************************************************************)
(* server/storage.ts                                                       *)
(***************************************************************************)
SessionExists(id) == id \in 1..Len(stackSessions)

\* getStackSession: the row, for an id that SessionExists
getStackSession(id) == stackSessions[id]

\* createStackSession: the table with the new row; created_at defaults to now
createStackSession(sessions, values, now) ==
    Append(sessions,
           [ id |-> Len(sessions) + 1,
             userId |-> values.userId,
             title |-> values.title,
             stackType |-> values.stackType,
             core4Domain |-> values.core4Domain,
             status |-> values.status,
             currentQuestionIndex |-> values.currentQuestionIndex,
             subjectEntity |-> values.subjectEntity,
             createdAt |-> {now},
             completedAt |-> {} ])

\* updateStackSession that increments the stored cursor
updateStackSessionIncrement(sessions, id, index) ==
    [sessions EXCEPT ![id].currentQuestionIndex = @ + 1]

\* updateStackSession with updates {currentQuestionIndex}
updateStackSession(sessions, id, index) ==
    [sessions EXCEPT ![id].currentQuestionIndex = index]

\* reopenStackSession without completedAt: null
reopenStackSessionStamped(sessions, id, index) ==
    [sessions EXCEPT ![id].currentQuestionIndex = index,
                     ![id].status = "in_progress"]

\* updateStackSession with updates {currentQuestionIndex, status, completedAt}
reopenStackSession(sessions, id, index) ==
    [sessions EXCEPT ![id].currentQuestionIndex = index,
                     ![id].status = "in_progress",
                     ![id].completedAt = {}]

\* completeStackSession that also rewinds the cursor
completeStackSessionRewinding(sessions, id, now) ==
    [sessions EXCEPT ![id].status = "completed", ![id].completedAt = {now},
                     ![id].currentQuestionIndex = 0]

\* completeStackSession: status and completed_at are set
completeStackSession(sessions, id, now) ==
    [sessions EXCEPT ![id].status = "completed", ![id].completedAt = {now}]

\* createStackMessage that inserts nothing
createStackMessageLost(messages, id, values, now) == messages

\* createStackMessage: the table with the new row; created_at defaults to now
createStackMessage(messages, id, values, now) ==
    Append(messages,
           [ id |-> id,
             sessionId |-> values.sessionId,
             role |-> values.role,
             content |-> values.content,
             questionNumber |-> values.questionNumber,
             createdAt |-> {now} ])

\* getSessionMessages: the session's rows ordered by created_at.  Rows are
\* appended with strictly increasing created_at (MessagesInTimeOrder), so the
\* insertion order of the table is that order.
getSessionMessages(messages, sessionId) ==
    SelectSeq(messages, LAMBDA m : m.sessionId = sessionId)

\* getMessage: {} for an unknown id, else {row}
getMessage(messages, id) ==
    { messages[i] : i \in { j \in 1..Len(messages) : messages[j].id = id } }

\* updateStackMessage: the row's content replaced
updateStackMessage(messages, id, content) ==
    LET hit == { j \in 1..Len(messages) : messages[j].id = id }
    IN  IF hit = {} THEN messages
        ELSE [messages EXCEPT ![CHOOSE j \in hit : TRUE].content = content]

\* deleteMessagesAfter: the session's rows created strictly after the timestamp
\* are deleted
deleteMessagesAfter(messages, sessionId, timestamp) ==
    SelectSeq(messages,
              LAMBDA m : ~(m.sessionId = sessionId
                           /\ \E t \in m.createdAt : \A s \in timestamp : t > s))

(***************************************************************************)
(* Requests.  A body field is a JavaScript value [t, v]: its type and, for *)
(* a string, its text.                                                     *)
(***************************************************************************)
Str(s) == [t |-> "string", v |-> s]
Undefined == [t |-> "undefined", v |-> << >>]
Num42 == [t |-> "number", v |-> << >>]

\* !x for the values above
Falsy(x) == x.t = "undefined" \/ (x.t = "string" /\ x.v = << >>)

\* a response with a message or a flag for body; data holds the row, the rows
\* or the text a successful read sends instead
Reply(op, status, body) ==
    [op |-> op, status |-> status, body |-> body, prompt |-> {}, data |-> {}]

ReplyData(op, data) ==
    [op |-> op, status |-> 200, body |-> "", prompt |-> {}, data |-> {data}]

ReplyAfterAI(op, status, body, prompt) ==
    [op |-> op, status |-> status, body |-> body, prompt |-> {prompt}, data |-> {}]

\* Authenticated attaching the owner's id whoever asks
AuthenticatedAsOwner(userId) == [userId |-> "u1", user |-> {}]

\* server/clerkAuth.ts isAuthenticated: the request as the handler receives
\* it.  The middleware attaches userId; nothing attaches req.user.
Authenticated(userId) == [userId |-> userId, user |-> {}]

(***************************************************************************)
(* server/routes.ts                                                        *)
(***************************************************************************)
\* POST /api/stacks/create
CreateStack(userId, title, stackType, core4Domain, subjectEntity) ==
    LET req == Authenticated(userId)
        t1 == clock + 1
        t2 == clock + 2
        sessionData == [ userId |-> req.userId, title |-> title,
                         stackType |-> stackType, core4Domain |-> core4Domain,
                         subjectEntity |-> subjectEntity,
                         currentQuestionIndex |-> 0, status |-> "in_progress" ]
        created == createStackSession(stackSessions, sessionData, t1)
        id == Len(created)
    IN  IF title = "" \/ stackType = "" \/ core4Domain = "" \/ subjectEntity = << >>
        THEN /\ res' = Reply("create", 400, "All fields are required")
             /\ UNCHANGED << stackSessions, stackMessages, nextMessageId, clock >>
        ELSE IF stackType \notin DOMAIN stackQuestionFlows
        THEN \* getInitialQuestion throws after the session row was inserted
             /\ stackSessions' = created
             /\ clock' = t1
             /\ res' = Reply("create", 500, "Failed to create stack session")
             /\ UNCHANGED << stackMessages, nextMessageId >>
        ELSE /\ stackMessages' =
                    createStackMessage(stackMessages, nextMessageId + 1,
                        [ sessionId |-> id, role |-> "assistant",
                          content |-> getInitialQuestion(stackType, subjectEntity),
                          questionNumber |-> {4} ], t2)
             /\ nextMessageId' = nextMessageId + 1
             /\ stackSessions' = updateStackSession(created, id, 3)
             /\ clock' = t2
             /\ res' = Reply("create", 200, "sessionId")

\* NextQuestionIndex without the increment
NextQuestionIndexSame(currentQuestionIndex) == currentQuestionIndex

\* const nextQuestionIndex = currentQuestionIndex + 1
NextQuestionIndex(currentQuestionIndex) == currentQuestionIndex + 1

\* IsLastQuestion with > for >=
IsLastQuestionLate(nextQuestionIndex, questions) == nextQuestionIndex > Len(questions)

\* const isLastQuestion = nextQuestionIndex >= questions.length
IsLastQuestion(nextQuestionIndex, questions) == nextQuestionIndex >= Len(questions)

\* AlreadyCompleted with the status test dropped
AlreadyCompletedNever(session) == FALSE

\* if (session.status === "completed")
AlreadyCompleted(session) == session.status = "completed"

\* the content test of the message and edit handlers
ContentMissing(content) ==
    Falsy(content) \/ content.t # "string" \/ Trim(content.v) = << >>

\* POST /api/stacks/:sessionId/message; aiOk tells whether the generation
\* call of this request is served
SendMessage(userId, sessionId, content, aiOk) ==
    LET req == Authenticated(userId) IN
    IF ContentMissing(content)
    THEN /\ res' = Reply("message", 400, "Message content is required")
         /\ UNCHANGED << stackSessions, stackMessages, nextMessageId, clock >>
    ELSE IF ~SessionExists(sessionId)
    THEN /\ res' = Reply("message", 404, "Session not found")
         /\ UNCHANGED << stackSessions, stackMessages, nextMessageId, clock >>
    ELSE IF getStackSession(sessionId).userId # req.userId
    THEN /\ res' = Reply("message", 403, "Access denied")
         /\ UNCHANGED << stackSessions, stackMessages, nextMessageId, clock >>
    ELSE IF AlreadyCompleted(getStackSession(sessionId))
    THEN /\ res' = Reply("message", 400, "Session is already completed")
         /\ UNCHANGED << stackSessions, stackMessages, nextMessageId, clock >>
    ELSE
    LET session == getStackSession(sessionId)
        t1 == clock + 1
        t2 == clock + 2
        t3 == clock + 3
        withUser == createStackMessage(stackMessages, nextMessageId + 1,
                        [ sessionId |-> session.id, role |-> "user",
                          content |-> Trim(content.v), questionNumber |-> {} ], t1)
        allMessages == getSessionMessages(withUser, sessionId)
        conversationHistory ==
            [ i \in 1..Len(allMessages) |->
                [role |-> allMessages[i].role, content |-> allMessages[i].content] ]
    IN  IF session.stackType \notin DOMAIN stackQuestionFlows
        THEN \* stackQuestionFlows[...].questions throws after the user message
             /\ stackMessages' = withUser
             /\ nextMessageId' = nextMessageId + 1
             /\ clock' = t1
             /\ res' = Reply("message", 500, "Failed to send message")
             /\ UNCHANGED stackSessions
        ELSE
        LET questions == stackQuestionFlows[session.stackType].questions
            currentQuestionIndex == session.currentQuestionIndex
            prompt == AIPrompt(session.stackType, currentQuestionIndex,
                               Trim(content.v), conversationHistory,
                               session.subjectEntity)
            aiResponse == AIText(prompt)
            nextQuestionIndex == NextQuestionIndex(currentQuestionIndex)
            isLastQuestion == IsLastQuestion(nextQuestionIndex, questions)
        IN  IF ~aiOk
            THEN \* getAIResponse throws: the user message stays
                 /\ stackMessages' = withUser
                 /\ nextMessageId' = nextMessageId + 1
                 /\ clock' = t1
                 /\ res' = ReplyAfterAI("message", 500, "Failed to send message", prompt)
                 /\ UNCHANGED stackSessions
            ELSE /\ stackMessages' =
                        createStackMessage(withUser, nextMessageId + 2,
                            [ sessionId |-> session.id, role |-> "assistant",
                              content |-> aiResponse,
                              questionNumber |->
                                  IF isLastQuestion THEN {}
                                  ELSE {nextQuestionIndex + 1} ], t2)
                 /\ nextMessageId' = nextMessageId + 2
                 /\ IF ~isLastQuestion
                    THEN /\ stackSessions' =
                                updateStackSession(stackSessions, session.id,
                                                   nextQuestionIndex)
                         /\ clock' = t2
                    ELSE /\ stackSessions' =
                                completeStackSession(stackSessions, session.id, t3)
                         /\ clock' = t3
                 /\ res' = ReplyAfterAI("message", 200, "success", prompt)
    
\* POST /api/stacks/:sessionId/complete
CompleteStack(userId, sessionId) ==
    LET req == Authenticated(userId) IN
    IF ~SessionExists(sessionId)
    THEN /\ res' = Reply("complete", 404, "Session not found")
         /\ UNCHANGED << stackSessions, stackMessages, nextMessageId, clock >>
    ELSE IF getStackSession(sessionId).userId # req.userId
    THEN /\ res' = Reply("complete", 403, "Access denied")
         /\ UNCHANGED << stackSessions, stackMessages, nextMessageId, clock >>
    ELSE /\ stackSessions' = completeStackSession(stackSessions, sessionId, clock + 1)
         /\ clock' = clock + 1
         /\ res' = Reply("complete", 200, "success")
         /\ UNCHANGED << stackMessages, nextMessageId >>

\* GET /api/stacks/session/:sessionId
GetSession(userId, sessionId) ==
    LET req == Authenticated(userId) IN
    /\ res' = IF ~SessionExists(sessionId)
              THEN Reply("session", 404, "Session not found")
              ELSE IF getStackSession(sessionId).userId # req.userId
              THEN Reply("session", 403, "Access denied")
              ELSE ReplyData("session", getStackSession(sessionId))
    /\ UNCHANGED << stackSessions, stackMessages, nextMessageId, clock >>

\* GET /api/stacks/messages/:sessionId
GetMessages(userId, sessionId) ==
    LET req == Authenticated(userId) IN
    /\ res' = IF ~SessionExists(sessionId)
              THEN Reply("messages", 404, "Session not found")
              ELSE IF getStackSession(sessionId).userId # req.userId
              THEN Reply("messages", 403, "Access denied")
              ELSE ReplyData("messages", getSessionMessages(stackMessages, sessionId))
    /\ UNCHANGED << stackSessions, stackMessages, nextMessageId, clock >>

\* s.charAt(0).toUpperCase() + s.slice(1), on the stack types and domains
Capitalize(s) ==
    CASE s = "gratitude" -> "Gratitude"
      [] s = "idea" -> "Idea"
      [] s = "discover" -> "Discover"
      [] s = "angry" -> "Angry"
      [] s = "mind" -> "Mind"
      [] s = "body" -> "Body"
      [] s = "being" -> "Being"
      [] s = "balance" -> "Balance"
      [] OTHER -> s

\* new Date().toISOString(): the instant, to the millisecond
ToISOString(now) == ToString(now)

\* new Date().toISOString().split('T')[0]: the calendar day of the instant
ISODate(now) == ToString(now \div DayLength)

\* the block messages.forEach appends for the message at index (from 0)
RECURSIVE TranscriptBlocks(_, _)
TranscriptBlocks(messages, index) ==
    IF index >= Len(messages) THEN << >>
    ELSE LET message == messages[index + 1]
             number == IF message.questionNumber # {}
                       THEN CHOOSE n \in message.questionNumber : TRUE
                       ELSE index + 1
         IN  ( IF message.role = "assistant"
               THEN <<"Question ", ToString(number), ":\n">>
                    \o message.content \o <<"\n\n">>
               ELSE <<"Your Response:\n">> \o message.content
                    \o <<"\n\n", "---\n\n">> )
             \o TranscriptBlocks(messages, index + 1)

\* TranscriptText with the instant in its first line and no frame
TranscriptTextStamped(session, messages, now) ==
    <<"MindGrowth Stack Transcript ", ToISOString(now), "\n">>
    \o TranscriptBlocks(messages, 0)

\* the text the export handler builds at instant now
TranscriptText(session, messages, now) ==
    << "MindGrowth Stack Transcript\n",
       "================================\n\n",
       "Title: ", session.title, "\n",
       "Stack Type: ", Capitalize(session.stackType), "\n",
       "CORE 4 Domain: ", Capitalize(session.core4Domain), "\n",
       "Subject: " >> \o session.subjectEntity \o
    << "\n",
       "Date: ", ISODate(now), "\n",
       "Status: ",
       IF session.status = "completed" THEN "Completed" ELSE "In Progress", "\n",
       "\n================================\n\n" >>
    \o TranscriptBlocks(messages, 0) \o
    << "\n================================\n",
       "End of Transcript\n",
       "Generated: ", ToISOString(now), "\n" >>

\* GET /api/stacks/:sessionId/export, handled at instant now
ExportTranscript(userId, sessionId, now) ==
    LET req == Authenticated(userId) IN
    IF ~SessionExists(sessionId)
    THEN /\ res' = Reply("export", 404, "Session not found")
         /\ UNCHANGED << stackSessions, stackMessages, nextMessageId, clock >>
    ELSE IF getStackSession(sessionId).userId # req.userId
    THEN /\ res' = Reply("export", 403, "Access denied")
         /\ UNCHANGED << stackSessions, stackMessages, nextMessageId, clock >>
    ELSE /\ res' = ReplyData("export",
                       TranscriptText(getStackSession(sessionId),
                                      getSessionMessages(stackMessages, sessionId),
                                      now))
         /\ clock' = now
         /\ UNCHANGED << stackSessions, stackMessages, nextMessageId >>

\* a request on which req.user carries the requester's claims
WithClaims(userId) == [userId |-> userId, user |-> {[claims |-> [sub |-> userId]]}]

\* NewQuestionIndex without the - 1
NewQuestionIndexCount(assistantCount) == Max(0, assistantCount)

\* Math.max(0, assistantMessages.length - 1)
NewQuestionIndex(assistantCount) == Max(0, assistantCount - 1)

\* AssistantCount without the role filter
AssistantCountAll(remainingMessages) == Len(remainingMessages)

\* remainingMessages.filter(m => m.role === "assistant").length
AssistantCount(remainingMessages) ==
    Len(SelectSeq(remainingMessages, LAMBDA m : m.role = "assistant"))

\* RollBack that deletes nothing
RollBackNothing(messages, sessionId, message) == messages

\* the rows deleted by the handler: none when the target's createdAt is null
RollBack(messages, sessionId, message) ==
    IF message.createdAt # {}
    THEN deleteMessagesAfter(messages, sessionId, message.createdAt)
    ELSE messages

\* PATCH /api/stacks/:sessionId/message/:messageId
EditMessage(req, sessionId, messageId, content) ==
    IF req.user = {}
    THEN \* req.user.claims.sub throws a TypeError, caught by the handler
         /\ res' = Reply("edit", 500, "Failed to edit message")
         /\ UNCHANGED << stackSessions, stackMessages, nextMessageId, clock >>
    ELSE
    LET userId == (CHOOSE u \in req.user : TRUE).claims.sub IN
    IF ContentMissing(content)
    THEN /\ res' = Reply("edit", 400, "Message content is required")
         /\ UNCHANGED << stackSessions, stackMessages, nextMessageId, clock >>
    ELSE IF ~SessionExists(sessionId)
    THEN /\ res' = Reply("edit", 404, "Session not found")
         /\ UNCHANGED << stackSessions, stackMessages, nextMessageId, clock >>
    ELSE IF getStackSession(sessionId).userId # userId
    THEN /\ res' = Reply("edit", 403, "Access denied")
         /\ UNCHANGED << stackSessions, stackMessages, nextMessageId, clock >>
    ELSE IF getMessage(stackMessages, messageId) = {}
    THEN /\ res' = Reply("edit", 404, "Message not found")
         /\ UNCHANGED << stackSessions, stackMessages, nextMessageId, clock >>
    ELSE
    LET message == CHOOSE m \in getMessage(stackMessages, messageId) : TRUE IN
    IF message.sessionId # sessionId
    THEN /\ res' = Reply("edit", 400, "Message does not belong to this session")
         /\ UNCHANGED << stackSessions, stackMessages, nextMessageId, clock >>
    ELSE IF message.role # "user"
    THEN /\ res' = Reply("edit", 400, "Can only edit user messages")
         /\ UNCHANGED << stackSessions, stackMessages, nextMessageId, clock >>
    ELSE
    LET updated == updateStackMessage(stackMessages, messageId, Trim(content.v))
        rolledBack == RollBack(updated, sessionId, message)
        remainingMessages == getSessionMessages(rolledBack, sessionId)
        newQuestionIndex == NewQuestionIndex(AssistantCount(remainingMessages))
    IN  /\ stackMessages' = rolledBack
        /\ stackSessions' = reopenStackSession(stackSessions, sessionId, newQuestionIndex)
        /\ res' = Reply("edit", 200, "success")
        /\ UNCHANGED << nextMessageId, clock >>

(***************************************************************************)
(* The requests explored.                                                  *)
(***************************************************************************)
Users == {"u1", "u2"}
\* the users are interchangeable: sessions are created by the first
Creators == {"u1"}
SessionIds == {1, 2}

\* create requests: complete bodies, and bodies with an empty field
CreateBodies ==
    { [title |-> "T", stackType |-> "gratitude", core4Domain |-> "mind",
       subjectEntity |-> <<"S">>],
      [title |-> "T", stackType |-> "discover", core4Domain |-> "mind",
       subjectEntity |-> <<"$", "&">>],
      [title |-> "T", stackType |-> "bogus", core4Domain |-> "mind",
       subjectEntity |-> <<"S">>],
      [title |-> "", stackType |-> "gratitude", core4Domain |-> "mind",
       subjectEntity |-> <<"S">>],
      [title |-> "T", stackType |-> "gratitude", core4Domain |-> "mind",
       subjectEntity |-> << >>] }

Contents == { Str(<<" ", "a", "\n">>), Str(<<" ">>), Undefined, Num42 }
EditContents == { Str(<<" ", "b">>), Str(<<"\t">>), Undefined }
AiOutcomes == IF aiFailures < MaxAiFailures THEN {TRUE, FALSE} ELSE {TRUE}
MessageIds == 1..(nextMessageId + 1)

\* handle, connections and calls
NoClient == 0
Connections == {1, 2}
InitCallIds == 1..MaxInitCalls
CloseCallIds == 1..MaxCloseCalls
Idle == [op |-> "idle", pc |-> "idle"]
NotCalled == [pc |-> "idle", returned |-> {}, epoch |-> 0]

\* nothing in flight, an empty collection, no client
InitServices(uri) ==
    /\ requests = [c \in Connections |-> Idle]
    /\ started = 0
    /\ dbFailures = 0
    /\ vectorIndex = {}
    /\ pendingUpserts = {}
    /\ searched = [userId |-> "", filter |-> {}, matches |-> {}]
    /\ mongoClient = NoClient
    /\ mongoUri = uri
    /\ clientsConstructed = 0
    /\ resets = 0
    /\ initCalls = [c \in InitCallIds |-> NotCalled]
    /\ closeCalls = [c \in CloseCallIds |-> "idle"]

\* the tables after the migrations, before any request
InitTables ==
    /\ stackSessions = << >>
    /\ stackMessages = << >>
    /\ nextMessageId = 0
    /\ clock = 0
    /\ res = Reply("none", 0, "")
    /\ exported = << >>
    /\ aiFailures = 0
    /\ editsRun = 0

Init == InitTables /\ InitServices({"uri"})

\* the generation call of the latest request failed
AiFailed(r) == r.status = 500 /\ r.prompt # {}

Create ==
    \E u \in Creators, b \in CreateBodies :
        /\ stackSessions = << >>
        /\ CreateStack(u, b.title, b.stackType, b.core4Domain, b.subjectEntity)
        /\ clock' <= MaxClock
        /\ UNCHANGED << exported, aiFailures, editsRun, Concurrent, VectorStore, Mongo >>

Message ==
    \E u \in Users, s \in SessionIds, c \in Contents, aiOk \in AiOutcomes :
        /\ aiOk \/ ~ContentMissing(c)
        /\ SendMessage(u, s, c, aiOk)
        /\ clock' <= MaxClock
        /\ aiFailures' = IF AiFailed(res') THEN aiFailures + 1 ELSE aiFailures
        /\ UNCHANGED << exported, editsRun, Concurrent, VectorStore, Mongo >>

Complete ==
    \E u \in Users, s \in SessionIds :
        /\ CompleteStack(u, s)
        /\ clock' <= MaxClock
        /\ UNCHANGED << exported, aiFailures, editsRun, Concurrent, VectorStore, Mongo >>

\* an edit request as the server receives it, behind isAuthenticated
Edit ==
    \E u \in Users, s \in SessionIds, m \in {1, 2}, c \in EditContents :
        /\ EditMessage(Authenticated(u), s, m, c)
        /\ UNCHANGED << exported, aiFailures, editsRun, Concurrent, VectorStore, Mongo >>

Next == Create \/ Message \/ Complete \/ Edit

Spec == Init /\ [][Next]_vars

(***************************************************************************)
(* The edit handler on requests whose req.user carries the requester's     *)
(* claims, on a session its owner drives.                                  *)
(***************************************************************************)
Owner(s) == stackSessions[s].userId

\* a write makes the client's earlier exports stale
KeepExports == exported' = IF Stored' = Stored THEN exported ELSE << >>

\* the owner opens a session, and may open a second one before the first answer
OwnerCreate ==
    /\ Len(stackSessions) < 2
    /\ nextMessageId = Len(stackSessions)
    /\ CreateStack("u1", "T", "gratitude", "mind", <<"S">>)
    /\ KeepExports
    /\ UNCHANGED << aiFailures, editsRun, Concurrent, VectorStore, Mongo >>

\* the owner answers in the first session
OwnerMessage ==
    /\ SessionExists(1)
    /\ SendMessage(Owner(1), 1, Str(<<" ", "a", "\n">>), TRUE)
    /\ clock' <= MaxClock
    /\ KeepExports
    /\ UNCHANGED << aiFailures, editsRun, Concurrent, VectorStore, Mongo >>

\* the owner force-completes the first session while it is in progress
OwnerComplete ==
    /\ SessionExists(1)
    /\ stackSessions[1].status = "in_progress"
    /\ CompleteStack(Owner(1), 1)
    /\ clock' <= MaxClock
    /\ KeepExports
    /\ UNCHANGED << aiFailures, editsRun, Concurrent, VectorStore, Mongo >>

EditWithClaims ==
    /\ editsRun < MaxEdits
    /\ \E u \in Users, s \in SessionIds, m \in MessageIds, c \in EditContents :
           /\ EditMessage(WithClaims(u), s, m, c)
           /\ editsRun' = editsRun + 1
           /\ UNCHANGED << exported, aiFailures, Concurrent, VectorStore, Mongo >>

NextEdit == OwnerCreate \/ OwnerMessage \/ OwnerComplete \/ EditWithClaims

SpecEdit == Init /\ [][NextEdit]_vars

(***************************************************************************)
(* The read routes, next to the writes of the owner and the requests of a  *)
(* stranger, on the sessions the owner drives.                             *)
(***************************************************************************)
Stranger == "u2"

ReadCreate == OwnerCreate /\ clock' <= MaxReadClock

ReadAdvance == OwnerMessage /\ clock' <= MaxReadClock

ReadComplete == OwnerComplete /\ clock' <= MaxReadClock

StrangerMessage ==
    \E s \in SessionIds :
        /\ SendMessage(Stranger, s, Str(<<" ", "a", "\n">>), TRUE)
        /\ KeepExports
        /\ UNCHANGED << aiFailures, editsRun, Concurrent, VectorStore, Mongo >>

StrangerComplete ==
    \E s \in SessionIds :
        /\ CompleteStack(Stranger, s)
        /\ KeepExports
        /\ UNCHANGED << aiFailures, editsRun, Concurrent, VectorStore, Mongo >>

ReadSession ==
    \E u \in Users, s \in SessionIds :
        /\ GetSession(u, s)
        /\ UNCHANGED << exported, aiFailures, editsRun, Concurrent, VectorStore, Mongo >>

ReadMessages ==
    \E u \in Users, s \in SessionIds :
        /\ GetMessages(u, s)
        /\ UNCHANGED << exported, aiFailures, editsRun, Concurrent, VectorStore, Mongo >>

\* an export request, handled at once or an instant later; the client keeps
\* the two latest transcripts
Export ==
    \E u \in Users, s \in SessionIds, now \in {clock, clock + 1} :
        /\ now <= MaxReadClock
        /\ ExportTranscript(u, s, now)
        /\ exported' =
               IF res'.status # 200 THEN exported
               ELSE LET sent == [sessionId |-> s,
                                 text |-> CHOOSE t \in res'.data : TRUE]
                    IN  IF Len(exported) < 2 THEN Append(exported, sent)
                        ELSE <<exported[2], sent>>
        /\ UNCHANGED << aiFailures, editsRun, Concurrent, VectorStore, Mongo >>

NextRead ==
    \/ ReadCreate \/ ReadAdvance \/ ReadComplete
    \/ StrangerMessage \/ StrangerComplete
    \/ ReadSession \/ ReadMessages \/ Export

SpecRead == Init /\ [][NextRead]_vars

(***************************************************************************)
(* server/mongodb-vector.ts: the client handle.  A call runs without       *)
(* interruption from one await to the next.                                *)
(***************************************************************************)
\* Cached with the test dropped
CachedNever(client) == FALSE

\* if (mongoClient) return mongoClient
Cached(client) == client # NoClient

\* what a call hands back: the handle as it is read at the return statement
Returned(client) == [pc |-> "returned", returned |-> {client}, epoch |-> resets]

Threw == [pc |-> "threw", returned |-> {}, epoch |-> resets]

\* initMongoDB up to its await: the cached handle is returned, or the URI is
\* missing, or a client is constructed and stored and connect() is awaited
InitMongoDBCalled(c) ==
    /\ initCalls[c].pc = "idle"
    /\ IF Cached(mongoClient)
       THEN /\ initCalls' = [initCalls EXCEPT ![c] = Returned(mongoClient)]
            /\ UNCHANGED << mongoClient, clientsConstructed >>
       ELSE IF mongoUri = {}
       THEN /\ initCalls' = [initCalls EXCEPT ![c] = Threw]
            /\ UNCHANGED << mongoClient, clientsConstructed >>
       ELSE /\ clientsConstructed' = clientsConstructed + 1
            /\ mongoClient' = clientsConstructed + 1
            /\ initCalls' = [initCalls EXCEPT ![c].pc = "connecting"]
    /\ UNCHANGED << mongoUri, resets, closeCalls >>

\* connect() resolved: return mongoClient
InitMongoDBConnected(c) ==
    /\ initCalls[c].pc = "connecting"
    /\ initCalls' = [initCalls EXCEPT ![c] = Returned(mongoClient)]
    /\ UNCHANGED << mongoClient, mongoUri, clientsConstructed, resets, closeCalls >>

\* connect() rejected: the call throws, the handle stays
InitMongoDBConnectFailed(c) ==
    /\ initCalls[c].pc = "connecting"
    /\ initCalls' = [initCalls EXCEPT ![c] = Threw]
    /\ UNCHANGED << mongoClient, mongoUri, clientsConstructed, resets, closeCalls >>

\* closeMongoDB up to its await
CloseMongoDBCalled(k) ==
    /\ closeCalls[k] = "idle"
    /\ closeCalls' = [closeCalls EXCEPT ![k] =
                          IF mongoClient # NoClient THEN "closing" ELSE "done"]
    /\ UNCHANGED << mongoClient, mongoUri, clientsConstructed, resets, initCalls >>

\* close() resolved: mongoClient = null
CloseMongoDBClosed(k) ==
    /\ closeCalls[k] = "closing"
    /\ mongoClient' = NoClient
    /\ resets' = resets + 1
    /\ closeCalls' = [closeCalls EXCEPT ![k] = "done"]
    /\ UNCHANGED << mongoUri, clientsConstructed, initCalls >>

\* close() rejected: the handle stays
CloseMongoDBFailed(k) ==
    /\ closeCalls[k] = "closing"
    /\ closeCalls' = [closeCalls EXCEPT ![k] = "threw"]
    /\ UNCHANGED << mongoClient, mongoUri, clientsConstructed, resets, initCalls >>

Tables == << stackSessions, stackMessages, nextMessageId, clock, res, exported,
             aiFailures, editsRun >>

InitMongo == InitTables /\ \E uri \in {{}, {"uri"}} : InitServices(uri)

InitCall ==
    \E c \in InitCallIds :
        /\ InitMongoDBCalled(c)
        /\ UNCHANGED << Tables, Concurrent, VectorStore >>

Connect ==
    \E c \in InitCallIds :
        /\ InitMongoDBConnected(c)
        /\ UNCHANGED << Tables, Concurrent, VectorStore >>

ConnectFail ==
    \E c \in InitCallIds :
        /\ InitMongoDBConnectFailed(c)
        /\ UNCHANGED << Tables, Concurrent, VectorStore >>

CloseCall ==
    \E k \in CloseCallIds :
        /\ CloseMongoDBCalled(k)
        /\ UNCHANGED << Tables, Concurrent, VectorStore >>

Closed ==
    \E k \in CloseCallIds :
        /\ CloseMongoDBClosed(k)
        /\ UNCHANGED << Tables, Concurrent, VectorStore >>

CloseFail ==
    \E k \in CloseCallIds :
        /\ CloseMongoDBFailed(k)
        /\ UNCHANGED << Tables, Concurrent, VectorStore >>

NextMongo == InitCall \/ Connect \/ ConnectFail \/ CloseCall \/ Closed \/ CloseFail

SpecMongo == InitMongo /\ [][NextMongo]_vars

(***************************************************************************)
(* server/mongodb-vector.ts: semantic search.  A filter is a set of        *)
(* conditions [key, op, value], one per key; a document field is compared  *)
(* as text.                                                                *)
(***************************************************************************)
\* const searchFilter = { userId }; Object.assign(searchFilter, filter): a
\* key of the source replaces the same key of the target
Assign(target, source) ==
    { t \in target : \A s \in source : s.key # t.key } \cup source

\* no filter argument
NoFilter == {}

\* the filter sent to the vector store
SearchFilter(userId, filter) ==
    Assign({[key |-> "userId", op |-> "$eq", value |-> userId]}, filter)

\* a document's field, as the store compares it
Field(doc, key) == IF key = "userId" THEN doc.userId ELSE ToString(doc.sessionId)

\* the store's filter: every condition holds of the document
Matches(doc, filter) ==
    \A c \in filter :
        IF c.op = "$ne" THEN Field(doc, c.key) # c.value
                        ELSE Field(doc, c.key) = c.value

\* $vectorSearch with limit topK: the answers the store can give, whatever
\* the similarity scores are
VectorSearch(index, filter, topK) ==
    LET matching == { d \in index : Matches(d, filter) }
        limit == IF Cardinality(matching) < topK THEN Cardinality(matching) ELSE topK
    IN  { m \in SUBSET matching : Cardinality(m) = limit }

\* semanticSearch: the answers it can return; [] when a step throws
semanticSearch(index, userId, topK, filter, ok) ==
    IF ok THEN VectorSearch(index, SearchFilter(userId, filter), topK)
    ELSE {{}}

\* findSimilarMessages: the other sessions' messages; no filter for a falsy
\* session id
findSimilarMessages(index, userId, sessionId, topK, ok) ==
    LET filter == IF sessionId # ""
                  THEN {[key |-> "sessionId", op |-> "$ne", value |-> sessionId]}
                  ELSE NoFilter
    IN  semanticSearch(index, userId, topK, filter, ok)

\* the documents an index may hold: two sessions of each user
Documents ==
    { [_id |-> 1, userId |-> "u1", sessionId |-> 1, content |-> <<"a">>],
      [_id |-> 2, userId |-> "u1", sessionId |-> 2, content |-> <<"a">>],
      [_id |-> 3, userId |-> "u2", sessionId |-> 3, content |-> <<"a">>],
      [_id |-> 4, userId |-> "u2", sessionId |-> 4, content |-> <<"a">>] }

\* the filters passed by callers
Filters ==
    { NoFilter,
      {[key |-> "sessionId", op |-> "$eq", value |-> "2"]},
      {[key |-> "sessionId", op |-> "$ne", value |-> "3"]},
      {[key |-> "userId", op |-> "$eq", value |-> "u2"]},
      {[key |-> "userId", op |-> "$ne", value |-> "u2"],
       [key |-> "sessionId", op |-> "$ne", value |-> "1"]} }

TopKs == {1, 5}

InitSearch ==
    /\ InitTables
    /\ requests = [c \in Connections |-> Idle]
    /\ started = 0
    /\ dbFailures = 0
    /\ vectorIndex \in SUBSET Documents
    /\ pendingUpserts = {}
    /\ searched = [userId |-> "", filter |-> NoFilter, matches |-> {}]
    /\ mongoClient = 1
    /\ mongoUri = {"uri"}
    /\ clientsConstructed = 1
    /\ resets = 0
    /\ initCalls = [c \in InitCallIds |-> NotCalled]
    /\ closeCalls = [c \in CloseCallIds |-> "idle"]

Search ==
    \E u \in Users, topK \in TopKs, f \in Filters, ok \in BOOLEAN :
        \E m \in semanticSearch(vectorIndex, u, topK, f, ok) :
            /\ searched' = [userId |-> u, filter |-> f, matches |-> m]
            /\ UNCHANGED << Tables, Concurrent, vectorIndex, pendingUpserts, Mongo >>

FindSimilar ==
    \E u \in Users, topK \in TopKs, s \in {"", "1", "3"}, ok \in BOOLEAN :
        \E m \in findSimilarMessages(vectorIndex, u, s, topK, ok) :
            /\ searched' = [userId |-> u,
                            filter |-> IF s = "" THEN NoFilter
                                       ELSE {[key |-> "sessionId", op |-> "$ne", value |-> s]},
                            matches |-> m]
            /\ UNCHANGED << Tables, Concurrent, vectorIndex, pendingUpserts, Mongo >>

NextSearch == Search \/ FindSimilar

SpecSearch == InitSearch /\ [][NextSearch]_vars

(***************************************************************************)
(* server/routes.ts, await by await.  Node runs a handler without          *)
(* interruption from one await to the next; between two awaits of one      *)
(* request the steps of other requests may run.  A connection holds the    *)
(* position of its request and the handler's local variables, and keeps    *)
(* the outcome of a finished request until it accepts the next.            *)
(***************************************************************************)
InFlight(c) == requests[c].pc \notin {"idle", "done"}

\* a finished request: what was sent
Finished(op, status) == [op |-> op, pc |-> "done", status |-> status]

\* res.status(...).json(...): the handler returns
Respond(c, outcome, reply) ==
    /\ requests' = [requests EXCEPT ![c] = outcome]
    /\ res' = reply

\* the ways an upsertMessageEmbedding call can end: done, or client
\* initialisation, embedding generation or the store write failed
UpsertOutcomes == {"ok", "init", "embedding", "write"}

\* UpsertThrows for a call that is awaited and lets its failure through
UpsertThrowsOnFailure(outcome) == outcome # "ok"

\* whether the upsert call makes the handler throw: the call is not awaited,
\* upsertMessageEmbedding catches whatever its steps throw and the handler
\* attaches .catch() to the promise
UpsertThrows(outcome) == FALSE

\* POST /api/stacks/:sessionId/message up to the session read and the tests
\* on what was read
MessageReceived(c, userId, sessionId, content) ==
    LET req == Authenticated(userId) IN
    /\ UNCHANGED << stackSessions, stackMessages, nextMessageId, clock >>
    /\ IF ContentMissing(content)
       THEN Respond(c, Finished("message", 400),
                    Reply("message", 400, "Message content is required"))
       ELSE IF ~SessionExists(sessionId)
       THEN Respond(c, Finished("message", 404),
                    Reply("message", 404, "Session not found"))
       ELSE IF getStackSession(sessionId).userId # req.userId
       THEN Respond(c, Finished("message", 403),
                    Reply("message", 403, "Access denied"))
       ELSE IF AlreadyCompleted(getStackSession(sessionId))
       THEN Respond(c, Finished("message", 400),
                    Reply("message", 400, "Session is already completed"))
       ELSE /\ requests' = [requests EXCEPT ![c] =
                               [ op |-> "message", pc |-> "saveUser",
                                 content |-> content,
                                 session |-> getStackSession(sessionId),
                                 userMessage |-> {}, assistantMessage |-> {},
                                 prompt |-> {}, embeddingFailed |-> FALSE ]]
            /\ UNCHANGED res

\* the user message is inserted and its upsert is fired
UserMessageSaved(c, outcome) ==
    LET r == requests[c] IN
    /\ r.pc = "saveUser"
    /\ stackMessages' =
           createStackMessage(stackMessages, nextMessageId + 1,
               [ sessionId |-> r.session.id, role |-> "user",
                 content |-> Trim(r.content.v), questionNumber |-> {} ], clock + 1)
    /\ nextMessageId' = nextMessageId + 1
    /\ clock' = clock + 1
    /\ UNCHANGED stackSessions
    /\ IF UpsertThrows(outcome)
       THEN Respond(c, Finished("message", 500),
                    Reply("message", 500, "Failed to send message"))
       ELSE /\ requests' = [requests EXCEPT ![c].pc = "history",
                                            ![c].userMessage = {nextMessageId + 1},
                                            ![c].embeddingFailed = (outcome # "ok")]
            /\ UNCHANGED res

\* the transcript is read and the generation request is built from it and
\* from the session as it was read at the start
HistoryRead(c) ==
    LET r == requests[c]
        allMessages == getSessionMessages(stackMessages, r.session.id)
        conversationHistory ==
            [ i \in 1..Len(allMessages) |->
                [role |-> allMessages[i].role, content |-> allMessages[i].content] ]
    IN  /\ r.pc = "history"
        /\ UNCHANGED << stackSessions, stackMessages, nextMessageId, clock >>
        /\ IF r.session.stackType \notin DOMAIN stackQuestionFlows
           THEN Respond(c, Finished("message", 500),
                        Reply("message", 500, "Failed to send message"))
           ELSE /\ requests' = [requests EXCEPT ![c].pc = "generate",
                                   ![c].prompt =
                                       {AIPrompt(r.session.stackType,
                                                 r.session.currentQuestionIndex,
                                                 Trim(r.content.v), conversationHistory,
                                                 r.session.subjectEntity)}]
                /\ UNCHANGED res

\* the generation call settles; its text is inserted as the assistant
\* message and the upsert of that message is fired
Generated(c, aiOk, outcome) ==
    LET r == requests[c]
        prompt == CHOOSE q \in r.prompt : TRUE
        questions == stackQuestionFlows[r.session.stackType].questions
        nextQuestionIndex == NextQuestionIndex(r.session.currentQuestionIndex)
        isLastQuestion == IsLastQuestion(nextQuestionIndex, questions)
    IN  /\ r.pc = "generate"
        /\ UNCHANGED stackSessions
        /\ IF ~aiOk
           THEN /\ Respond(c, Finished("message", 500),
                           ReplyAfterAI("message", 500, "Failed to send message", prompt))
                /\ UNCHANGED << stackMessages, nextMessageId, clock >>
           ELSE /\ stackMessages' =
                       createStackMessage(stackMessages, nextMessageId + 1,
                           [ sessionId |-> r.session.id, role |-> "assistant",
                             content |-> AIText(prompt),
                             questionNumber |->
                                 IF isLastQuestion THEN {}
                                 ELSE {nextQuestionIndex + 1} ], clock + 1)
                /\ nextMessageId' = nextMessageId + 1
                /\ clock' = clock + 1
                /\ IF UpsertThrows(outcome)
                   THEN Respond(c, Finished("message", 500),
                                ReplyAfterAI("message", 500, "Failed to send message", prompt))
                   ELSE /\ requests' =
                               [requests EXCEPT ![c].pc = "progress",
                                   ![c].assistantMessage = {nextMessageId + 1},
                                   ![c].embeddingFailed = (@ \/ outcome # "ok")]
                        /\ UNCHANGED res

\* the session is updated from the cursor read at the start, and the
\* response is sent
ProgressSaved(c) ==
    LET r == requests[c]
        prompt == CHOOSE q \in r.prompt : TRUE
        questions == stackQuestionFlows[r.session.stackType].questions
        nextQuestionIndex == NextQuestionIndex(r.session.currentQuestionIndex)
        isLastQuestion == IsLastQuestion(nextQuestionIndex, questions)
    IN  /\ r.pc = "progress"
        /\ UNCHANGED << stackMessages, nextMessageId >>
        /\ IF ~isLastQuestion
           THEN /\ stackSessions' =
                       updateStackSession(stackSessions, r.session.id, nextQuestionIndex)
                /\ UNCHANGED clock
           ELSE /\ stackSessions' =
                       completeStackSession(stackSessions, r.session.id, clock + 1)
                /\ clock' = clock + 1
        /\ Respond(c, [ op |-> "message", pc |-> "done", status |-> 200,
                        session |-> r.session, userMessage |-> r.userMessage,
                        assistantMessage |-> r.assistantMessage,
                        embeddingFailed |-> r.embeddingFailed ],
                   ReplyAfterAI("message", 200, "success", prompt))

\* POST /api/stacks/:sessionId/complete up to the session read and its tests
CompleteReceived(c, userId, sessionId) ==
    LET req == Authenticated(userId) IN
    /\ UNCHANGED << stackSessions, stackMessages, nextMessageId, clock >>
    /\ IF ~SessionExists(sessionId)
       THEN Respond(c, Finished("complete", 404),
                    Reply("complete", 404, "Session not found"))
       ELSE IF getStackSession(sessionId).userId # req.userId
       THEN Respond(c, Finished("complete", 403),
                    Reply("complete", 403, "Access denied"))
       ELSE /\ requests' = [requests EXCEPT ![c] =
                               [ op |-> "complete", pc |-> "complete",
                                 sessionId |-> sessionId ]]
            /\ UNCHANGED res

\* completeStackSession runs and the response is sent
CompleteSaved(c) ==
    LET r == requests[c] IN
    /\ r.pc = "complete"
    /\ stackSessions' = completeStackSession(stackSessions, r.sessionId, clock + 1)
    /\ clock' = clock + 1
    /\ UNCHANGED << stackMessages, nextMessageId >>
    /\ Respond(c, Finished("complete", 200), Reply("complete", 200, "success"))

\* PATCH /api/stacks/:sessionId/message/:messageId up to the session read and
\* its tests.  before, alone and number are not the handler's: they record
\* the tables at the start, whether no other request was in flight then, and
\* the request's rank.
EditReceived(c, req, sessionId, messageId, content) ==
    /\ UNCHANGED << stackSessions, stackMessages, nextMessageId, clock >>
    /\ IF req.user = {}
       THEN Respond(c, Finished("edit", 500),
                    Reply("edit", 500, "Failed to edit message"))
       ELSE
       LET userId == (CHOOSE u \in req.user : TRUE).claims.sub IN
       IF ContentMissing(content)
       THEN Respond(c, Finished("edit", 400),
                    Reply("edit", 400, "Message content is required"))
       ELSE IF ~SessionExists(sessionId)
       THEN Respond(c, Finished("edit", 404),
                    Reply("edit", 404, "Session not found"))
       ELSE IF getStackSession(sessionId).userId # userId
       THEN Respond(c, Finished("edit", 403),
                    Reply("edit", 403, "Access denied"))
       ELSE /\ requests' = [requests EXCEPT ![c] =
                               [ op |-> "edit", pc |-> "getMessage",
                                 sessionId |-> sessionId, messageId |-> messageId,
                                 content |-> content, message |-> {},
                                 newQuestionIndex |-> {},
                                 before |-> Stored,
                                 alone |-> \A d \in Connections \ {c} : ~InFlight(d),
                                 number |-> started + 1 ]]
            /\ UNCHANGED res

\* the target message is read and tested
MessageRead(c) ==
    LET r == requests[c]
        found == getMessage(stackMessages, r.messageId)
    IN  /\ r.pc = "getMessage"
        /\ UNCHANGED << stackSessions, stackMessages, nextMessageId, clock >>
        /\ IF found = {}
           THEN Respond(c, Finished("edit", 404),
                        Reply("edit", 404, "Message not found"))
           ELSE
           LET message == CHOOSE m \in found : TRUE IN
           IF message.sessionId # r.sessionId
           THEN Respond(c, Finished("edit", 400),
                        Reply("edit", 400, "Message does not belong to this session"))
           ELSE IF message.role # "user"
           THEN Respond(c, Finished("edit", 400),
                        Reply("edit", 400, "Can only edit user messages"))
           ELSE /\ requests' = [requests EXCEPT ![c].pc = "updateMessage",
                                                ![c].message = {message}]
                /\ UNCHANGED res

\* the text of the target message is replaced
MessageUpdated(c) ==
    LET r == requests[c] IN
    /\ r.pc = "updateMessage"
    /\ stackMessages' = updateStackMessage(stackMessages, r.messageId, Trim(r.content.v))
    /\ requests' = [requests EXCEPT ![c].pc = "deleteAfter"]
    /\ UNCHANGED << stackSessions, nextMessageId, clock, res >>

\* a storage call of the edit handler threw: the catch block answers
EditFailed(c) ==
    /\ Respond(c, Finished("edit", 500), Reply("edit", 500, "Failed to edit message"))
    /\ UNCHANGED << stackSessions, stackMessages, nextMessageId, clock >>

\* the messages after the target are deleted
LaterDeleted(c, ok) ==
    LET r == requests[c] IN
    /\ r.pc = "deleteAfter"
    /\ IF ~ok THEN EditFailed(c)
       ELSE /\ stackMessages' =
                   RollBack(stackMessages, r.sessionId, CHOOSE m \in r.message : TRUE)
            /\ requests' = [requests EXCEPT ![c].pc = "remaining"]
            /\ UNCHANGED << stackSessions, nextMessageId, clock, res >>

\* the transcript is read again and the cursor is computed from it
RemainingRead(c, ok) ==
    LET r == requests[c]
        remainingMessages == getSessionMessages(stackMessages, r.sessionId)
    IN  /\ r.pc = "remaining"
        /\ IF ~ok THEN EditFailed(c)
           ELSE /\ requests' =
                       [requests EXCEPT ![c].pc = "reopen",
                           ![c].newQuestionIndex =
                               {NewQuestionIndex(AssistantCount(remainingMessages))}]
                /\ UNCHANGED << stackSessions, stackMessages, nextMessageId, clock, res >>

\* the session is updated and the response is sent
Reopened(c, ok) ==
    LET r == requests[c] IN
    /\ r.pc = "reopen"
    /\ IF ~ok THEN EditFailed(c)
       ELSE /\ stackSessions' =
                   reopenStackSession(stackSessions, r.sessionId,
                                      CHOOSE i \in r.newQuestionIndex : TRUE)
            /\ UNCHANGED << stackMessages, nextMessageId, clock >>
            /\ Respond(c, Finished("edit", 200), Reply("edit", 200, "success"))

(***************************************************************************)
(* The owner's requests on one session, two at a time.  A session's id is  *)
(* a fresh UUID sent in the response of create, so no request names the    *)
(* session before create has finished.                                     *)
(***************************************************************************)
StorageOutcomes == IF dbFailures < MaxDbFailures THEN {TRUE, FALSE} ELSE {TRUE}

\* a connection takes the next request
Accepts(c) ==
    /\ ~InFlight(c)
    /\ started < MaxRequests
    /\ started' = started + 1

Static == << exported, VectorStore, Mongo >>

RaceCreate ==
    /\ stackSessions = << >>
    /\ CreateStack("u1", "T", "gratitude", "mind", <<"S">>)
    /\ UNCHANGED << aiFailures, editsRun, Concurrent, Static >>

RaceAdvance ==
    \E c \in Connections :
        /\ Accepts(c)
        /\ MessageReceived(c, "u1", 1, Str(<<" ", "a", "\n">>))
        /\ UNCHANGED << aiFailures, editsRun, dbFailures, Static >>

SaveUser ==
    \E c \in Connections, outcome \in UpsertOutcomes :
        /\ UserMessageSaved(c, outcome)
        /\ UNCHANGED << aiFailures, editsRun, started, dbFailures, Static >>

ReadHistory ==
    \E c \in Connections :
        /\ HistoryRead(c)
        /\ UNCHANGED << aiFailures, editsRun, started, dbFailures, Static >>

Generate ==
    \E c \in Connections, aiOk \in AiOutcomes, outcome \in UpsertOutcomes :
        /\ Generated(c, aiOk, outcome)
        /\ aiFailures' = IF aiOk THEN aiFailures ELSE aiFailures + 1
        /\ UNCHANGED << editsRun, started, dbFailures, Static >>

Progress ==
    \E c \in Connections :
        /\ ProgressSaved(c)
        /\ UNCHANGED << aiFailures, editsRun, started, dbFailures, Static >>

RaceComplete ==
    \E c \in Connections :
        /\ Accepts(c)
        /\ CompleteReceived(c, "u1", 1)
        /\ UNCHANGED << aiFailures, editsRun, dbFailures, Static >>

SaveComplete ==
    \E c \in Connections :
        /\ CompleteSaved(c)
        /\ UNCHANGED << aiFailures, editsRun, started, dbFailures, Static >>

\* an edit request, as the server receives it or carrying claims
RaceEdit ==
    \E c \in Connections, m \in 1..nextMessageId,
       req \in {Authenticated("u1"), WithClaims("u1")} :
        /\ Accepts(c)
        /\ editsRun < MaxEdits
        /\ editsRun' = editsRun + 1
        /\ EditReceived(c, req, 1, m, Str(<<" ", "b">>))
        /\ UNCHANGED << aiFailures, dbFailures, Static >>

ReadMessage ==
    \E c \in Connections :
        /\ MessageRead(c)
        /\ UNCHANGED << aiFailures, editsRun, started, dbFailures, Static >>

UpdateMessage ==
    \E c \in Connections :
        /\ MessageUpdated(c)
        /\ UNCHANGED << aiFailures, editsRun, started, dbFailures, Static >>

DeleteLater ==
    \E c \in Connections, ok \in StorageOutcomes :
        /\ LaterDeleted(c, ok)
        /\ dbFailures' = IF ok THEN dbFailures ELSE dbFailures + 1
        /\ UNCHANGED << aiFailures, editsRun, started, Static >>

ReadRemaining ==
    \E c \in Connections, ok \in StorageOutcomes :
        /\ RemainingRead(c, ok)
        /\ dbFailures' = IF ok THEN dbFailures ELSE dbFailures + 1
        /\ UNCHANGED << aiFailures, editsRun, started, Static >>

Reopen ==
    \E c \in Connections, ok \in StorageOutcomes :
        /\ Reopened(c, ok)
        /\ dbFailures' = IF ok THEN dbFailures ELSE dbFailures + 1
        /\ UNCHANGED << aiFailures, editsRun, started, Static >>

NextRace ==
    \/ RaceCreate
    \/ RaceAdvance \/ SaveUser \/ ReadHistory \/ Generate \/ Progress
    \/ RaceComplete \/ SaveComplete
    \/ RaceEdit \/ ReadMessage \/ UpdateMessage \/ DeleteLater \/ ReadRemaining
    \/ Reopen

SpecRace == Init /\ [][NextRace]_vars

(***************************************************************************)
(* The vector index next to the tables: the upserts the advance handler    *)
(* fires settle after the handler has gone on, in any order.  The edit     *)
(* handler makes no call to the vector store.                              *)
(***************************************************************************)
\* content.substring(0, 500)
PreviewLength == 500
Preview(content) ==
    SubSeq(content, 1, IF Len(content) < PreviewLength THEN Len(content)
                       ELSE PreviewLength)

\* upsertMessageEmbedding: updateOne({_id}, {$set: document}, {upsert: true})
\* when every step is served, nothing when a step throws
upsertMessageEmbedding(index, messageId, userId, sessionId, content, outcome) ==
    IF outcome = "ok"
    THEN { d \in index : d._id # messageId }
         \cup {[ _id |-> messageId, userId |-> userId, sessionId |-> sessionId,
                 content |-> Preview(content) ]}
    ELSE index

\* the upserts fired by an advance: one per message it inserted, with the
\* text inserted
Fired(userId) ==
    { [ messageId |-> stackMessages'[i].id, userId |-> userId,
        sessionId |-> stackMessages'[i].sessionId,
        content |-> stackMessages'[i].content ] :
      i \in (Len(stackMessages) + 1)..Len(stackMessages') }

VectorCreate ==
    /\ stackSessions = << >>
    /\ CreateStack("u1", "T", "gratitude", "mind", <<"S">>)
    /\ UNCHANGED << exported, aiFailures, editsRun, Concurrent, VectorStore, Mongo >>

\* an advance whose generation call is served
VectorAdvance ==
    /\ SessionExists(1)
    /\ SendMessage(Owner(1), 1, Str(<<" ", "a", "\n">>), TRUE)
    /\ clock' <= MaxReadClock
    /\ pendingUpserts' = pendingUpserts \cup Fired(Owner(1))
    /\ UNCHANGED << exported, aiFailures, editsRun, Concurrent, vectorIndex,
                    searched, Mongo >>

\* an upsert settles
Upsert ==
    \E t \in pendingUpserts, outcome \in UpsertOutcomes :
        /\ vectorIndex' = upsertMessageEmbedding(vectorIndex, t.messageId, t.userId,
                                                 t.sessionId, t.content, outcome)
        /\ pendingUpserts' = pendingUpserts \ {t}
        /\ UNCHANGED << Tables, Concurrent, searched, Mongo >>

\* an edit that passes the handler's tests
VectorEdit ==
    /\ editsRun < MaxEdits
    /\ \E m \in MessageIds, c \in EditContents :
           /\ EditMessage(WithClaims("u1"), 1, m, c)
           /\ res'.status = 200
    /\ editsRun' = editsRun + 1
    /\ UNCHANGED << exported, aiFailures, Concurrent, VectorStore, Mongo >>

NextVector == VectorCreate \/ VectorAdvance \/ Upsert \/ VectorEdit

SpecVector == Init /\ [][NextVector]_vars

(***************************************************************************)
(* Sanity of the model's time: rows sit in created_at order.               *)
(***************************************************************************)
MessagesInTimeOrder ==
    \A i, j \in 1..Len(stackMessages) :
        i < j => \A s \in stackMessages[i].createdAt, t \in stackMessages[j].createdAt : s < t

(***************************************************************************)
(* Vocabulary of the properties.                                           *)
(***************************************************************************)
\* t is s without its leading and trailing white space
IsTrimOf(t, s) ==
    \E i \in 1..(Len(s) + 1), j \in 0..Len(s) :
        /\ t = SubSeq(s, i, j)
        /\ \A k \in 1..Len(s) : (k < i \/ k > j) => s[k] \in WhiteSpace
        /\ t # << >> => (t[1] \notin WhiteSpace /\ t[Len(t)] \notin WhiteSpace)

\* the stack type's question count
Total(session) == stackQuestionFlows[session.stackType].totalQuestions

KnownType(session) == session.stackType \in DOMAIN stackQuestionFlows

\* the request is an advance by the session's owner with usable content
OwnerAdvance(u, s, c) ==
    /\ SessionExists(s)
    /\ stackSessions[s].userId = u
    /\ c.t = "string"
    /\ \E k \in 1..Len(c.v) : c.v[k] \notin WhiteSpace

\* the step leaves both tables alone and answers the advance (u, s, c) as a
\* rejected one: 400 to the owner, with the conflict message when the
\* content is usable, and no success to anyone
RejectedUnchanged(u, s, c) ==
    /\ Stored' = Stored
    /\ res'.status \in {400, 403}
    /\ stackSessions[s].userId = u => res'.status = 400
    /\ OwnerAdvance(u, s, c)
         => res' = Reply("message", 400, "Session is already completed")

\* C1: with requests handled one at a time, an advance on a session whose
\* status is completed is always rejected with HTTP 400 and changes nothing:
\* no message is appended, and cursor, status and completion timestamp stay
\* as they were.  (Stated contrapositively: from a state where the session
\* is completed, a step that answers an advance request other than by such
\* a rejection is not an advance on it.  A requester who is not the owner is refused with 403.)
C1_CompletedAdvanceRejected ==
    [][ res'.op = "message"
          => \A s \in SessionIds :
               ( /\ SessionExists(s)
                 /\ stackSessions[s].status = "completed" )
               => \A u \in Users, c \in Contents :
                    ~RejectedUnchanged(u, s, c)
                    => \A aiOk \in BOOLEAN : ~SendMessage(u, s, c, aiOk)
      ]_vars

\* C1 witness: a session completed by its last advance has just refused an
\* advance as already completed
C1_Witness ==
    \E s \in 1..Len(stackSessions) :
        /\ stackSessions[s].status = "completed"
        /\ KnownType(stackSessions[s])
        /\ stackSessions[s].currentQuestionIndex = Total(stackSessions[s]) - 1
        /\ stackMessages # << >>
        /\ stackMessages[Len(stackMessages)].questionNumber = {}
        /\ stackMessages[Len(stackMessages)].role = "assistant"
        /\ res = Reply("message", 400, "Session is already completed")

\* C2: a successful advance on an in_progress session with cursor k, where
\* k+1 is less than the stack type's question count, appends exactly two
\* messages in this order: a user message (trimmed content, no question
\* number) and then an assistant message with question number k+2; it sets
\* the cursor to k+1 and leaves the status in_progress.
C2_AdvanceAppendsPair ==
    [][ (res'.op = "message" /\ res'.status = 200) =>
        \A s \in SessionIds, u \in Users, c \in Contents, aiOk \in BOOLEAN :
          ( /\ SessionExists(s)
            /\ stackSessions[s].status = "in_progress"
            /\ KnownType(stackSessions[s])
            /\ stackSessions[s].currentQuestionIndex + 1 < Total(stackSessions[s])
            /\ SendMessage(u, s, c, aiOk) )
          => LET k == stackSessions[s].currentQuestionIndex
                 n == Len(stackMessages)
             IN  /\ Len(stackMessages') = n + 2
                 /\ SubSeq(stackMessages', 1, n) = stackMessages
                 /\ stackMessages'[n + 1].sessionId = s
                 /\ stackMessages'[n + 1].role = "user"
                 /\ IsTrimOf(stackMessages'[n + 1].content, c.v)
                 /\ stackMessages'[n + 1].questionNumber = {}
                 /\ stackMessages'[n + 2].sessionId = s
                 /\ stackMessages'[n + 2].role = "assistant"
                 /\ stackMessages'[n + 2].questionNumber = {k + 2}
                 /\ \A a \in stackMessages'[n + 1].createdAt,
                       b \in stackMessages'[n + 2].createdAt : a < b
                 /\ stackSessions' =
                        [stackSessions EXCEPT ![s].currentQuestionIndex = k + 1]
                 /\ stackSessions'[s].status = "in_progress"
      ]_vars

\* C2 witness: an advance has just succeeded and left the session in_progress
\* behind a user message and a numbered assistant message
C2_Witness ==
    \E s \in 1..Len(stackSessions) :
        LET n == Len(stackMessages) IN
        /\ res.op = "message" /\ res.status = 200
        /\ stackSessions[s].status = "in_progress"
        /\ stackSessions[s].currentQuestionIndex = 5
        /\ n >= 2
        /\ stackMessages[n - 1].role = "user"
        /\ stackMessages[n - 1].content = <<"a">>
        /\ stackMessages[n].role = "assistant"
        /\ stackMessages[n].questionNumber = {6}

\* C3: a successful advance on an in_progress session whose cursor is
\* total-1 appends a user message and then an assistant summary message with
\* no question number, sets status to completed with a completion timestamp,
\* and leaves the cursor at total-1; among successful advances, the long-form
\* summary prompt is used exactly in those that mark the session completed.
C3_TerminalAdvanceCompletes ==
    [][ (res'.op = "message" /\ res'.status = 200) =>
        \A s \in SessionIds, u \in Users, c \in Contents, aiOk \in BOOLEAN :
          ( /\ SessionExists(s)
            /\ stackSessions[s].status = "in_progress"
            /\ KnownType(stackSessions[s])
            /\ SendMessage(u, s, c, aiOk) )
          => LET k == stackSessions[s].currentQuestionIndex
                 n == Len(stackMessages)
                 completes == stackSessions'[s].status = "completed"
             IN  /\ \E p \in res'.prompt :
                        /\ (p.kind = "summary") <=> completes
                        /\ (p.max_tokens = 3072) <=> completes
                        /\ stackMessages'[Len(stackMessages')].content = AIText(p)
                 /\ completes <=> (k = Total(stackSessions[s]) - 1)
                 /\ k = Total(stackSessions[s]) - 1
                      => /\ Len(stackMessages') = n + 2
                         /\ SubSeq(stackMessages', 1, n) = stackMessages
                         /\ stackMessages'[n + 1].role = "user"
                         /\ stackMessages'[n + 1].sessionId = s
                         /\ stackMessages'[n + 2].role = "assistant"
                         /\ stackMessages'[n + 2].sessionId = s
                         /\ stackMessages'[n + 2].questionNumber = {}
                         /\ stackSessions'[s].completedAt # {}
                         /\ stackSessions'[s].currentQuestionIndex = k
      ]_vars

\* C3 witness: the advance at cursor total-1 has just completed the session
\* with a summary
C3_Witness ==
    \E s \in 1..Len(stackSessions) :
        /\ res.op = "message" /\ res.status = 200
        /\ \E p \in res.prompt : p.kind = "summary"
        /\ stackSessions[s].status = "completed"
        /\ stackSessions[s].completedAt # {}
        /\ stackSessions[s].currentQuestionIndex = Total(stackSessions[s]) - 1
        /\ stackMessages[Len(stackMessages)].questionNumber = {}

\* text with every placeholder replaced by the subject, letter for letter
RECURSIVE Substituted(_, _)
Substituted(text, subject) ==
    IF text = << >> THEN << >>
    ELSE IF Len(text) >= 3 /\ SubSeq(text, 1, 3) = <<"[", "X", "]">>
         THEN subject \o Substituted(SubSeq(text, 4, Len(text)), subject)
         ELSE <<Head(text)>> \o Substituted(Tail(text), subject)

\* the session's transcript
Transcript(s) == SelectSeq(stackMessages, LAMBDA m : m.sessionId = s)

\* the session the latest message was written to
LastWritten == stackMessages[Len(stackMessages)].sessionId

\* C4: in a non-terminal advance from cursor k, the question the assistant
\* message is built from is the next question of the stack type's flow, the
\* one at index k+1, with the placeholder replaced by the session's subject.
\* (Read in the state after the advance, where the cursor is k+1.)
C4_NextQuestionQuoted ==
    (res.op = "message" /\ res.status = 200)
    => \A p \in res.prompt :
         p.kind = "next"
         => LET session == stackSessions[LastWritten]
                questions == stackQuestionFlows[session.stackType].questions
            IN  /\ p.question =
                       Substituted(QuestionAt(questions, session.currentQuestionIndex),
                                   session.subjectEntity)
                /\ stackMessages[Len(stackMessages)].content = AIText(p)

\* C5: in every state reachable by create, advance, force-complete and edit
\* requests, every session's cursor satisfies 0 <= cursor <= number of
\* questions of its stack type.
C5_CursorInRange ==
    \A s \in 1..Len(stackSessions) :
        KnownType(stackSessions[s])
        => /\ 0 <= stackSessions[s].currentQuestionIndex
           /\ stackSessions[s].currentQuestionIndex <= Total(stackSessions[s])

\* C5 witness: an edit has just moved a cursor down to the lower end of the range
C5_Witness ==
    /\ res = Reply("edit", 200, "success")
    /\ \E s \in 1..Len(stackSessions) :
           /\ stackSessions[s].currentQuestionIndex = 0
           /\ Len(Transcript(s)) = 2

\* the session's transcript is exactly n answers given one after another to a
\* newly created session: the opening question, then n times a user message
\* and the assistant message that answers it
Answered(s, n) ==
    LET t == Transcript(s)
    IN  /\ Len(t) = 2 * n + 1
        /\ \A i \in 1..Len(t) :
               t[i].role = IF i % 2 = 1 THEN "assistant" ELSE "user"

Gratitude(s) == stackSessions[s].stackType = "gratitude"

\* C6 as stated: on a gratitude session 11 answers one after another bring
\* the cursor to 14 and mark the session completed with a summary message
\* whose question number is null.
C6_ElevenAnswersComplete ==
    \A s \in 1..Len(stackSessions) :
        (Gratitude(s) /\ Answered(s, 11))
        => /\ stackSessions[s].currentQuestionIndex = 14
           /\ stackSessions[s].status = "completed"
           /\ Transcript(s)[23].questionNumber = {}

\* C6: on a newly created gratitude session (15 questions, initial cursor 3)
\* the n-th answer in a row, n = 1..11, leaves the session in_progress with
\* cursor 3+n and a next question numbered 4+n, so that 11 answers bring the
\* cursor to 14; the 12th answer marks the session completed with a summary
\* message whose question number is null and leaves the cursor at 14; after
\* 12 answers every advance is rejected and changes nothing, the owner's as
\* a conflict.
C6_TwelveAnswersComplete ==
    [][ res'.op = "message"
          => \A s \in 1..Len(stackSessions) :
               Gratitude(s)
               => /\ \A n \in 1..12 :
                        (res'.status = 200 /\ Answered(s, n - 1) /\ Answered(s, n)')
                        => LET session == stackSessions'[s]
                               last == Transcript(s)'[2 * n + 1]
                           IN  /\ session.currentQuestionIndex
                                     = IF n = 12 THEN 14 ELSE 3 + n
                               /\ session.status
                                     = IF n = 12 THEN "completed" ELSE "in_progress"
                               /\ (session.completedAt # {}) <=> (n = 12)
                               /\ last.questionNumber
                                     = IF n = 12 THEN {} ELSE {4 + n}
                               /\ \A p \in res'.prompt :
                                      (p.kind = "summary") <=> (n = 12)
                  /\ Answered(s, 12)
                        => /\ Stored' = Stored
                           /\ res'.status \in {400, 403, 404}
                           /\ \A u \in Users, c \in Contents :
                                  (OwnerAdvance(u, s, c) /\ SendMessage(u, s, c, TRUE))
                                  => res' = Reply("message", 400,
                                                  "Session is already completed")
      ]_vars

\* C6 witness: the gratitude session, completed by its 12th answer, has just
\* rejected a 13th
C6_Witness ==
    \E s \in 1..Len(stackSessions) :
        /\ Gratitude(s)
        /\ Answered(s, 12)
        /\ stackSessions[s].status = "completed"
        /\ stackSessions[s].currentQuestionIndex = 14
        /\ Transcript(s)[25].questionNumber = {}
        /\ res = Reply("message", 400, "Session is already completed")

\* C7: after a successful create request the new session is in_progress with
\* cursor 3 and no completion timestamp, and its transcript holds exactly one
\* message: an assistant message with question number 4 whose text is
\* question index 3 of the stack type with the placeholder replaced by the
\* subject.
C7_CreatedSession ==
    res = Reply("create", 200, "sessionId")
    => LET s == Len(stackSessions)
           session == stackSessions[s]
           questions == stackQuestionFlows[session.stackType].questions
       IN  /\ session.status = "in_progress"
           /\ session.currentQuestionIndex = 3
           /\ session.completedAt = {}
           /\ Len(Transcript(s)) = 1
           /\ Transcript(s)[1].role = "assistant"
           /\ Transcript(s)[1].questionNumber = {4}
           /\ Transcript(s)[1].content
                  = Substituted(QuestionAt(questions, 3), session.subjectEntity)

\* the rows of a transcript
Rows(t) == { t[i] : i \in 1..Len(t) }

\* row a was created no later than row b
NotAfter(a, b) == \A x \in a.createdAt, y \in b.createdAt : x <= y

\* the step is the rollback of an edit of message m of session s with new
\* text c, asked for by requester u
RollbackRuns(u, s, m, c) ==
    /\ res' = Reply("edit", 200, "success")
    /\ EditMessage(WithClaims(u), s, m, c)

\* C8 as stated: the transcript read after the rollback steps has every
\* message with timestamp <= m.timestamp unchanged except that m's content
\* equals the new text t, and has no message with timestamp > m.timestamp.
C8_RollbackStoresText ==
    [][ res'.op = "edit" /\ res'.status = 200
          => \A u \in Users, s \in SessionIds, m \in MessageIds, c \in EditContents :
               RollbackRuns(u, s, m, c)
               => \E target \in Rows(Transcript(s)) :
                    /\ target.id = m
                    /\ Rows(Transcript(s)') =
                         { IF r.id = m THEN [r EXCEPT !.content = c.v] ELSE r :
                             r \in { x \in Rows(Transcript(s)) : NotAfter(x, target) } }
      ]_vars

\* C8: the transcript read after the rollback steps of an edit of user
\* message m with new text t has every message with timestamp <= m.timestamp
\* unchanged except that m's content equals t without its leading and
\* trailing white space, and has no message with timestamp > m.timestamp.
C8_RollbackStoresTrimmedText ==
    [][ res'.op = "edit" /\ res'.status = 200
          => \A u \in Users, s \in SessionIds, m \in MessageIds, c \in EditContents :
               RollbackRuns(u, s, m, c)
               => \E target \in Rows(Transcript(s)) :
                    /\ target.id = m
                    /\ target.role = "user"
                    /\ \A r \in Rows(Transcript(s)') : NotAfter(r, target)
                    /\ \A r \in Rows(Transcript(s)) :
                         (NotAfter(r, target) /\ r.id # m) => r \in Rows(Transcript(s)')
                    /\ \E r \in Rows(Transcript(s)') :
                         /\ r.id = m
                         /\ IsTrimOf(r.content, c.v)
                         /\ r = [target EXCEPT !.content = r.content]
                    /\ Len(Transcript(s)')
                         = Cardinality({ r \in Rows(Transcript(s)) : NotAfter(r, target) })
                    /\ \A i, j \in 1..Len(Transcript(s)') :
                         i <= j => NotAfter(Transcript(s)'[i], Transcript(s)'[j])
      ]_vars

\* C8 witness: an edit has just replaced a text and cut the transcript after it
C8_Witness ==
    /\ res = Reply("edit", 200, "success")
    /\ \E s \in 1..Len(stackSessions) :
           LET t == Transcript(s)
           IN  /\ Len(t) >= 4
               /\ t[Len(t)].role = "user"
               /\ t[Len(t)].content = <<"b">>
               /\ nextMessageId > t[Len(t)].id

\* the number of assistant messages in the session's transcript
AssistantsRemaining(s) ==
    Cardinality({ i \in 1..Len(stackMessages) :
                    stackMessages[i].sessionId = s /\ stackMessages[i].role = "assistant" })

\* C9: after the rollback steps of an edit, whatever the cursor was before,
\* the session's cursor equals max(0, number of assistant messages remaining
\* in the transcript - 1).
C9_CursorRecomputed ==
    [][ res'.op = "edit" /\ res'.status = 200
          => \A u \in Users, s \in SessionIds, m \in MessageIds, c \in EditContents :
               RollbackRuns(u, s, m, c)
               => LET n == AssistantsRemaining(s)'
                  IN  stackSessions'[s].currentQuestionIndex
                          = IF n - 1 > 0 THEN n - 1 ELSE 0
      ]_vars

\* C9 witness: an edit has just brought the cursor of a session that had
\* reached the end back to 4, behind five assistant messages
C9_Witness ==
    /\ res = Reply("edit", 200, "success")
    /\ \E s \in 1..Len(stackSessions) :
           /\ AssistantsRemaining(s) = 5
           /\ stackSessions[s].currentQuestionIndex = 4
           /\ nextMessageId = 25

\* C10: an edit on a completed session reopens it: for an edit request of
\* the owner naming a user message of the session with non-empty content,
\* status becomes in_progress and the completion timestamp is cleared.
C10_EditReopens ==
    [][ res'.op = "edit"
          => \A u \in Users, s \in SessionIds, m \in {1, 2}, c \in EditContents :
               ( /\ SessionExists(s)
                 /\ stackSessions[s].status = "completed"
                 /\ stackSessions[s].userId = u
                 /\ \E r \in Rows(Transcript(s)) : r.id = m /\ r.role = "user"
                 /\ ~ContentMissing(c)
                 /\ EditMessage(Authenticated(u), s, m, c) )
               => /\ stackSessions'[s].status = "in_progress"
                  /\ stackSessions'[s].completedAt = {}
      ]_vars

\* the session's transcript holds a row with this id and role
HasMessage(s, m, role) ==
    \E r \in Rows(Transcript(s)) : r.id = m /\ r.role = role

\* no row of the session's transcript has this id: the id does not exist, or
\* names a message of another session
NoMessage(s, m) == \A r \in Rows(Transcript(s)) : r.id # m

\* C11: an edit request whose message id does not exist, or names a message
\* that belongs to a different session than the one in the URL, is answered
\* with HTTP 404 and changes no message and no session.  (Stated for the
\* owner's requests with usable content, on requests that carry the
\* requester's claims.)
C11_ForeignMessageNotFound ==
    [][ res'.op = "edit"
          => \A u \in Users, s \in SessionIds, m \in MessageIds, c \in EditContents :
               ( /\ SessionExists(s)
                 /\ Owner(s) = u
                 /\ ~ContentMissing(c)
                 /\ NoMessage(s, m)
                 /\ EditMessage(WithClaims(u), s, m, c) )
               => /\ res'.status = 404
                  /\ Stored' = Stored
      ]_vars

\* C12: an edit request that targets an assistant-authored message is
\* rejected with HTTP 400 and leaves the message text, the rest of the
\* transcript, the cursor and the status unchanged.  (Stated for the owner's
\* requests with usable content, as the server receives them.)
C12_AssistantEditRejected ==
    [][ res'.op = "edit"
          => \A u \in Users, s \in SessionIds, m \in {1, 2}, c \in EditContents :
               ( /\ SessionExists(s)
                 /\ Owner(s) = u
                 /\ ~ContentMissing(c)
                 /\ HasMessage(s, m, "assistant")
                 /\ EditMessage(Authenticated(u), s, m, c) )
               => /\ res'.status = 400
                  /\ Stored' = Stored
      ]_vars

\* C13: an edit request that has passed isAuthenticated and is sent by the
\* session's owner, with the id of a user message of that session and
\* non-empty content, passes the ownership check and runs the rollback with
\* a success response; it does not end in 403 or 500.
C13_OwnerEditSucceeds ==
    [][ res'.op = "edit"
          => \A u \in Users, s \in SessionIds, m \in {1, 2}, c \in EditContents :
               ( /\ SessionExists(s)
                 /\ Owner(s) = u
                 /\ ~ContentMissing(c)
                 /\ HasMessage(s, m, "user")
                 /\ EditMessage(Authenticated(u), s, m, c) )
               => /\ res' = Reply("edit", 200, "success")
                  /\ \E r \in Rows(Transcript(s)') :
                         r.id = m /\ IsTrimOf(r.content, c.v)
                  /\ \A r \in Rows(Transcript(s)') : r.id <= m
      ]_vars

\* the step handles a request of u for session s on one of the routes
\* get-session, get-messages, advance, force-complete, export
RequestOn(u, s) ==
    \/ GetSession(u, s)
    \/ GetMessages(u, s)
    \/ SendMessage(u, s, Str(<<" ", "a", "\n">>), TRUE)
    \/ CompleteStack(u, s)
    \/ \E now \in {clock, clock + 1} : ExportTranscript(u, s, now)

\* C14: for get-session, get-messages, advance, force-complete and export, a
\* request by an authenticated user who is not the session's owner is
\* answered with 403, returns none of the session's content, and leaves the
\* session and its messages unchanged; a request for a session id that does
\* not exist is answered with 404.  (An advance is taken with usable
\* content: the content test comes first.)
C14_StrangerDenied ==
    [][ \A u \in Users, s \in SessionIds :
          RequestOn(u, s)
          => /\ (SessionExists(s) /\ Owner(s) # u)
                  => /\ res'.status = 403
                     /\ res'.body = "Access denied"
                     /\ res'.data = {}
                     /\ res'.prompt = {}
                     /\ Stored' = Stored
             /\ ~SessionExists(s)
                  => /\ res'.status = 404
                     /\ res'.data = {}
                     /\ Stored' = Stored
      ]_vars

\* C14 witness: a stranger's export of a session with answers has just been denied
C14_Witness ==
    /\ res = Reply("export", 403, "Access denied")
    /\ Len(stackMessages) >= 3
    /\ \E s \in 1..Len(stackSessions) : Owner(s) # Stranger

\* the two texts are the same, position by position, except for the values
\* that follow "Date: " and "Generated: "
SameButTimes(a, b) ==
    /\ Len(a) = Len(b)
    /\ \A k \in 1..Len(a) :
           a[k] # b[k]
           => /\ k > 1
              /\ a[k - 1] = b[k - 1]
              /\ a[k - 1] \in {"Date: ", "Generated: "}

\* the instant a transcript text says it was generated at
GeneratedAt(text) == text[Len(text) - 1]

\* C19 as stated: two export requests for the same session with no write
\* between them return byte-identical transcript bodies, whatever time
\* passes between the two requests.
C19_ExportsIdentical ==
    \A i, j \in 1..Len(exported) :
        exported[i].sessionId = exported[j].sessionId
        => exported[i].text = exported[j].text

\* C19: two export requests for the same session with no write between them
\* return transcript bodies that are identical except for the day of the
\* "Date:" line and the instant of the "Generated:" line, which are those of
\* each request; the bodies are byte-identical when both requests are
\* handled at the same instant.
C19_ExportsIdenticalButTimes ==
    \A i, j \in 1..Len(exported) :
        exported[i].sessionId = exported[j].sessionId
        => /\ SameButTimes(exported[i].text, exported[j].text)
           /\ GeneratedAt(exported[i].text) = GeneratedAt(exported[j].text)
                => exported[i].text = exported[j].text

\* C19 witness: a client holds two transcripts of a session with answers,
\* exported with no write between them, that are not the same text
C19_Witness ==
    /\ Len(exported) = 2
    /\ exported[1].sessionId = exported[2].sessionId
    /\ exported[1].text # exported[2].text
    /\ Len(Transcript(exported[1].sessionId)) >= 3
    /\ res.op = "export" /\ res.status = 200

\* C15: an advance or an edit whose content is missing, not a string, empty,
\* or only whitespace is rejected with HTTP 400 before any read or write of
\* the session, so no message is appended or changed and the cursor and
\* status are unchanged.
C15_MissingContentRejected ==
    [][ res'.op \in {"message", "edit"}
          => \A u \in Users, s \in SessionIds :
               /\ \A c \in Contents :
                    (ContentMissing(c) /\ SendMessage(u, s, c, TRUE))
                    => res'.status = 400 /\ Stored' = Stored
               /\ \A c \in EditContents, m \in {1, 2} :
                    (ContentMissing(c) /\ EditMessage(Authenticated(u), s, m, c))
                    => res'.status = 400 /\ Stored' = Stored
      ]_vars

\* C16: force-complete by the owner sets the session's status to completed
\* with a completion timestamp whatever its cursor is, and changes neither
\* the cursor nor any message of the transcript.
C16_ForceComplete ==
    [][ res'.op = "complete"
          => \A u \in Users, s \in SessionIds :
               (SessionExists(s) /\ Owner(s) = u /\ CompleteStack(u, s))
               => /\ res' = Reply("complete", 200, "success")
                  /\ stackSessions'[s].status = "completed"
                  /\ stackSessions'[s].completedAt # {}
                  /\ \A t \in stackSessions'[s].completedAt :
                         /\ \A r \in Rows(Transcript(s)) : \A x \in r.createdAt : x < t
                         /\ \A x \in stackSessions[s].completedAt : x < t
                  /\ stackSessions'[s].currentQuestionIndex
                         = stackSessions[s].currentQuestionIndex
                  /\ stackMessages' = stackMessages
                  /\ stackSessions' =
                         [stackSessions EXCEPT
                             ![s].status = "completed",
                             ![s].completedAt = stackSessions'[s].completedAt]
      ]_vars

\* C16 witness: a session still at its opening cursor, with one answer left
\* without a reply, has just been force-completed
C16_Witness ==
    /\ res = Reply("complete", 200, "success")
    /\ \E s \in 1..Len(stackSessions) :
           /\ stackSessions[s].status = "completed"
           /\ stackSessions[s].currentQuestionIndex = 3
           /\ Len(Transcript(s)) = 2

Completed(session) == session.status = "completed"

\* the session's transcript ends with the summary a terminal advance writes
EndsWithSummary(s) ==
    LET t == Transcript(s)
    IN  /\ t # << >>
        /\ t[Len(t)].role = "assistant"
        /\ t[Len(t)].questionNumber = {}

\* C17 as stated: a session's status is completed if and only if its cursor
\* reached the terminal index (total-1) through normal advancement and no
\* edit reopened it since.
C17_CompletedIffTerminal ==
    \A s \in 1..Len(stackSessions) :
        KnownType(stackSessions[s])
        => ( Completed(stackSessions[s])
             <=> /\ stackSessions[s].currentQuestionIndex = Total(stackSessions[s]) - 1
                 /\ EndsWithSummary(s) )

\* the step is a successful advance of session s from its terminal cursor
TerminalAdvance(s) ==
    /\ res'.op = "message" /\ res'.status = 200
    /\ ~Completed(stackSessions[s])
    /\ stackSessions[s].currentQuestionIndex = Total(stackSessions[s]) - 1
    /\ Len(Transcript(s)') = Len(Transcript(s)) + 2

\* the step is a successful force-complete of session s
ForceCompleted(s) ==
    /\ res' = Reply("complete", 200, "success")
    /\ stackSessions'[s].completedAt # stackSessions[s].completedAt

\* the step is a successful edit in session s
Edited(s) ==
    /\ res' = Reply("edit", 200, "success")
    /\ \E u \in Users, m \in MessageIds, c \in EditContents :
           EditMessage(WithClaims(u), s, m, c)

\* C17: a session is completed exactly when it was completed by an advance
\* from the terminal cursor total-1 or by a force-complete, at whatever
\* cursor, and no edit reopened it since: after every step a session is
\* completed if and only if the step was such an advance or force-complete
\* of it, or it was completed before and the step was not an edit of it.
C17_CompletedIffCompletedAndNotReopened ==
    [][ \A s \in 1..Len(stackSessions') :
          Completed(stackSessions'[s])
          <=> /\ s <= Len(stackSessions)
              /\ \/ TerminalAdvance(s)
                 \/ ForceCompleted(s)
                 \/ (Completed(stackSessions[s]) /\ ~Edited(s))
      ]_vars

\* C17 witness: a session is completed with its cursor short of the terminal
\* index, a question still open
C17_Witness ==
    \E s \in 1..Len(stackSessions) :
        /\ Completed(stackSessions[s])
        /\ stackSessions[s].currentQuestionIndex = 5
        /\ Transcript(s)[Len(Transcript(s))].questionNumber = {6}
        /\ res = Reply("complete", 200, "success")

\* C18: in every state reachable by sequential create, advance (including
\* advances whose generation call fails), edit and force-complete requests,
\* a session's transcript ordered by creation time starts with one assistant
\* message and then strictly alternates user, assistant, user, ...: no two
\* consecutive messages have the same role.
C18_TranscriptAlternates ==
    \A s \in 1..Len(stackSessions) :
        KnownType(stackSessions[s])
        => LET t == Transcript(s)
           IN  /\ t # << >>
               /\ t[1].role = "assistant"
               /\ \A i \in 1..(Len(t) - 1) : t[i].role # t[i + 1].role

\* C20: when the generation call fails during an advance, the request ends
\* with HTTP 500, the user message of that advance stays persisted, no
\* assistant message is appended, and the cursor, status and completion
\* timestamp are unchanged.
C20_FailedGenerationKeepsUserMessage ==
    [][ (res'.op = "message" /\ res'.prompt # {})
          => \A u \in Users, s \in SessionIds, c \in Contents :
               SendMessage(u, s, c, FALSE)
               => LET n == Len(stackMessages)
                  IN  /\ res'.status = 500
                      /\ res'.body = "Failed to send message"
                      /\ res'.data = {}
                      /\ Len(stackMessages') = n + 1
                      /\ SubSeq(stackMessages', 1, n) = stackMessages
                      /\ stackMessages'[n + 1].sessionId = s
                      /\ stackMessages'[n + 1].role = "user"
                      /\ stackMessages'[n + 1].questionNumber = {}
                      /\ IsTrimOf(stackMessages'[n + 1].content, c.v)
                      /\ stackSessions' = stackSessions
      ]_vars

\* C20 witness: the generation call of an advance at cursor 5 has just
\* failed, leaving the answer as the last message of the transcript
C20_Witness ==
    /\ AiFailed(res)
    /\ \E s \in 1..Len(stackSessions) :
           LET t == Transcript(s)
           IN  /\ stackSessions[s].currentQuestionIndex = 5
               /\ stackSessions[s].status = "in_progress"
               /\ Len(t) = 6
               /\ t[6].role = "user"
               /\ t[5].role = "assistant"

\* C23: every persisted session has a stack type from the closed set
\* {gratitude, idea, discover, angry}: a create request with any other
\* stackType value leaves no session row in the store.
C23_StackTypeClosed ==
    \A s \in 1..Len(stackSessions) : stackSessions[s].stackType \in stackTypeEnum

\* the session was created and has only been advanced by served advances:
\* assistant and user messages alternate, and the cursor counts the answers
CreatedAndAdvanced(s) ==
    LET t == Transcript(s)
        answers == Len(SelectSeq(t, LAMBDA m : m.role = "user"))
    IN  /\ KnownType(stackSessions[s])
        /\ editsRun = 0
        /\ t # << >>
        /\ \A i \in 1..Len(t) :
               t[i].role = IF i % 2 = 1 THEN "assistant" ELSE "user"
        /\ Len(t) = 2 * answers + 1
        /\ IF Completed(stackSessions[s])
           THEN /\ stackSessions[s].currentQuestionIndex = Total(stackSessions[s]) - 1
                /\ EndsWithSummary(s)
           ELSE stackSessions[s].currentQuestionIndex = 3 + answers

\* the step edited the j-th answer of session s
EditedAnswer(s, j) ==
    /\ res' = Reply("edit", 200, "success")
    /\ Len(Transcript(s)) >= 2 * j
    /\ Len(Transcript(s)') = 2 * j
    /\ Transcript(s)'[2 * j].content # Transcript(s)[2 * j].content

\* C26: for a session that has only been created and advanced normally,
\* editing the user message that was originally submitted when the cursor
\* was c leaves the session with cursor c (the j-th answer was submitted at
\* cursor 2 + j), so the cursor never falls below 3.
C26_EditRestoresCursor ==
    [][ res'.op = "edit" /\ res'.status = 200
          => \A s \in 1..Len(stackSessions), j \in 1..12 :
               (CreatedAndAdvanced(s) /\ EditedAnswer(s, j))
               => /\ stackSessions'[s].currentQuestionIndex = 2 + j
                  /\ stackSessions'[s].currentQuestionIndex >= 3
      ]_vars

\* C24: under any interleaving of concurrent initMongoDB calls made while no
\* client exists, at most one MongoClient is constructed, and every call
\* returns that same client until closeMongoDB resets it: a second client is
\* only constructed after a reset, and every call that returns before the
\* first reset returns the first client.
C24_OneClient ==
    /\ clientsConstructed <= resets + 1
    /\ \A c \in InitCallIds :
           (initCalls[c].pc = "returned" /\ initCalls[c].epoch = 0)
           => initCalls[c].returned = {1}

\* C24 witness: of three calls made while no client existed, one is still
\* awaiting connect() and the two others have returned the client it
\* constructed
C24_Witness ==
    /\ resets = 0
    /\ clientsConstructed = 1
    /\ \E a, b, c \in InitCallIds :
           /\ a # b
           /\ initCalls[c].pc = "connecting"
           /\ initCalls[a] = [pc |-> "returned", returned |-> {1}, epoch |-> 0]
           /\ initCalls[b] = [pc |-> "returned", returned |-> {1}, epoch |-> 0]

\* C25: for every call semanticSearch(userId, query, topK, filter), with any
\* optional filter, the filter sent to the vector store restricts matches to
\* documents whose owner id equals userId, so every returned match belongs
\* to the calling user; this includes findSimilarMessages, which adds a
\* session-exclusion filter.
C25_MatchesBelongToCaller ==
    \A d \in searched.matches : d.userId = searched.userId

\* C21: a failure of an embedding upsert (client initialisation, embedding
\* generation or store write), for the user message or for the assistant
\* message, never changes the outcome of the enclosing advance: whatever the
\* upsert fired by a step of the handler does, the step appends its message
\* and the handler goes on, the only stop before the response being a failed
\* generation call; the last step makes the cursor or status update from the
\* session as it was read and sends the success response.
C21_EmbeddingFailureHarmless ==
    [][ \A c \in Connections :
          (requests[c].op = "message" /\ requests'[c] # requests[c])
          => LET r == requests[c]
                 n == Len(stackMessages)
             IN  /\ r.pc = "saveUser"
                    => /\ requests'[c].pc = "history"
                       /\ Len(stackMessages') = n + 1
                       /\ stackMessages'[n + 1].role = "user"
                       /\ stackMessages'[n + 1].content = Trim(r.content.v)
                       /\ stackSessions' = stackSessions
                 /\ r.pc = "generate"
                    => IF Len(stackMessages') = n
                       THEN AiFailed(res')
                       ELSE /\ requests'[c].pc = "progress"
                            /\ Len(stackMessages') = n + 1
                            /\ stackMessages'[n + 1].role = "assistant"
                            /\ stackSessions' = stackSessions
                 /\ r.pc = "progress"
                    => /\ requests'[c].pc = "done"
                       /\ requests'[c].status = 200
                       /\ res'.status = 200
                       /\ stackMessages' = stackMessages
                       /\ \/ stackSessions'[r.session.id].currentQuestionIndex
                                 = r.session.currentQuestionIndex + 1
                          \/ Completed(stackSessions'[r.session.id])
      ]_vars

\* C21 witness: an advance during which an upsert failed has been answered
\* with success, its two messages are in the table and the cursor is at 4
C21_Witness ==
    /\ Len(stackMessages) = 3
    /\ stackSessions[1].currentQuestionIndex = 4
    /\ \E c \in Connections :
           /\ requests[c].pc = "done"
           /\ requests[c].op = "message"
           /\ requests[c].status = 200
           /\ requests[c].embeddingFailed
    /\ res.status = 200

\* the ids of the rows a finished advance inserted
Inserted(c) == requests[c].userMessage \cup requests[c].assistantMessage

\* the connection holds an advance that was answered with success
Advanced(c) ==
    /\ requests[c].pc = "done"
    /\ requests[c].op = "message"
    /\ requests[c].status = 200

\* C22: advances on one session are not serialized: there is an interleaving
\* of two advance requests on the same in_progress session at cursor k in
\* which both read cursor k, both append a user and an assistant message,
\* and the final cursor is k+1.  Whenever two advances that read the same
\* session row have both been answered with success and their rows are in
\* the table, four messages were added, both assistant messages carry
\* question number k+2 and the cursor is k+1.
C22_RacingAdvancesAdvanceOnce ==
    \A c, d \in Connections :
        ( /\ c # d
          /\ Advanced(c)
          /\ Advanced(d)
          /\ requests[c].session = requests[d].session
          /\ \A m \in Inserted(c) \cup Inserted(d) : getMessage(stackMessages, m) # {} )
        => LET k == requests[c].session.currentQuestionIndex
               s == requests[c].session.id
           IN  /\ Cardinality(Inserted(c) \cup Inserted(d)) = 4
               /\ stackSessions[s].currentQuestionIndex = k + 1
               /\ \A m \in requests[c].assistantMessage \cup requests[d].assistantMessage :
                      \A row \in getMessage(stackMessages, m) : row.questionNumber = {k + 2}

\* C22 witness: two advances that both read cursor 3 have been answered with
\* success; the table holds the opening message and their four messages, and
\* the cursor is 4
C22_Witness ==
    /\ \A c \in Connections :
           Advanced(c) /\ requests[c].session.currentQuestionIndex = 3
    /\ Len(stackMessages) = 5
    /\ stackSessions[1].currentQuestionIndex = 4
    /\ stackSessions[1].status = "in_progress"

\* C27: in every interleaving of advance, force-complete and edit requests on
\* one session, no user or assistant message is appended to the session
\* while its stored status is completed.
C27_NoAppendWhileCompleted ==
    [][ \A s \in 1..Len(stackSessions) :
          Len(Transcript(s)') > Len(Transcript(s))
          => stackSessions[s].status # "completed"
      ]_vars

\* C29: if a step of the edit handler fails after the target message's text
\* was replaced (the deletion of later messages, the re-read of the
\* transcript, or the session update), the request ends with HTTP 500 and
\* the transcript, cursor and status are the same as before the request.
\* (Stated for an edit during which no other request runs.)
C29_FailedEditRestores ==
    [][ \A c \in Connections :
          ( /\ requests[c].op = "edit"
            /\ requests[c].pc \in {"deleteAfter", "remaining", "reopen"}
            /\ requests'[c] = Finished("edit", 500)
            /\ requests[c].alone
            /\ requests[c].number = started )
          => /\ res' = Reply("edit", 500, "Failed to edit message")
             /\ Stored' = requests[c].before
      ]_vars

\* C30: in every reachable state, under any interleaving of create, advance,
\* force-complete and edit requests, a session has a completion timestamp if
\* and only if its status is completed.
C30_StampIffCompleted ==
    \A s \in 1..Len(stackSessions) :
        stackSessions[s].completedAt # {} <=> Completed(stackSessions[s])

\* C30 witness: a force-complete has stamped and completed the session while
\* an advance that read it in progress awaits its generation call
C30_Witness ==
    /\ SessionExists(1)
    /\ Completed(stackSessions[1])
    /\ stackSessions[1].completedAt # {}
    /\ \E c, d \in Connections :
           /\ requests[c].pc = "generate"
           /\ requests[c].session.status = "in_progress"
           /\ requests[d] = Finished("complete", 200)

\* C28: after an edit-and-rollback and after all pending embedding upserts
\* have finished, the vector index holds no document for a message that the
\* rollback deleted, and the document of the edited message carries the new
\* text, so semantic search cannot return rolled-back or pre-edit content.
C28_IndexFollowsRollback ==
    (editsRun > 0 /\ pendingUpserts = {})
    => \A d \in vectorIndex :
           \E row \in Rows(stackMessages) :
               row.id = d._id /\ d.content = Preview(row.content)

====
